---- MODULE Spec2Model ----
(***************************************************************************)
(* State-machine model of the hybrid signal engine of                      *)
(* src/src/utils/hooks/useHybridSignal.ts: the HybridSignal class (value   *)
(* cache, subscriber fan-out, debounced persistence, external-change       *)
(* check), the module-level hybridSignalRegistry and the useHybridSignal   *)
(* effect (get-or-create, subscribe, poll timer, cleanup).                 *)
(*                                                                         *)
(* One storage key is modelled.  The backend (unstorage) is an external    *)
(* asynchronous key/value store: every call is queued, takes effect (or    *)
(* fails) in issue order, and its continuation (the code after the await)  *)
(* runs later, also in issue order.                                        *)
(***************************************************************************)
EXTENDS Integers, Sequences, FiniteSets, TLC

\* ----------------------------------------------------------------- bounds
MaxVal == 1          \* stored values are 0..MaxVal
MaxInst == 2         \* HybridSignal instances constructed in one run
MaxOps == 4          \* operations started: by callers (attach, detach, set,
                     \* ..., remove, checkForChanges), by poll ticks and by
                     \* the external writer
MaxFail == 1         \* backend calls that reject
MaxIds == 3          \* timer ids handed out by setTimeout / setInterval
NCallers == 2        \* components using useHybridSignal on the key
MaxProps == 2        \* properties of a stored object
NCallbacks == 3      \* callbacks subscribed directly to one HybridSignal
MaxFanOps == 4       \* operations on that HybridSignal
MaxEqOps == 4        \* calls made on a HybridSignal / IndexedDBHybridSignal pair

\* -------------------------------------------------------------- constants
Null == -1           \* JS null: an absent backend entry, an unset field
None == 0            \* no instance / no caller / no timer id
DefaultValue == 0    \* options.defaultValue
DefaultPollInterval == 2000   \* pollInterval = 2000 (ms) when not given
PollFloor == 500     \* Math.max(pollInterval, 500)

Values == 0..MaxVal
NComponents == 2
MaxUsOps == 4
MaxUsFail == 1
MaxHsOps == 3
MaxSgOps == 4
MaxSgFail == 1
MaxSgVal == 3
Components == 1..NComponents
Inst == 1..MaxInst
Callers == 1..NCallers

VARIABLES
  storage,               \* backend entry of the key (Null when absent)
  queue,                 \* backend calls in flight, in issue order
  hybridSignalRegistry,  \* the registered instance of the key, or None
  nInst,                 \* instances constructed so far
  currentValue, isInitialized, debounceTimeout, lastStorageValue,
  subscribers,           \* HybridSignal fields, per instance
  timeouts,              \* pending window.setTimeout callbacks
  intervals,             \* active window.setInterval callbacks
  nextId,                \* next timer id of the window
  mounted,               \* per caller: the effect ran and was not cleaned up
  signalRef, pollIntervalRef, value,   \* useHybridSignal refs and state
  options,               \* per caller: subscribe and pollInterval of its hook
  ev,                    \* history: what the last step did
  window,                \* history: debounced values set since the last firing
  lastLocal,             \* history: value of the latest local write
  chain,                 \* history: progress of the scenario in course
  nOps, nFail,
  cmpStorageValue,       \* an object read by checkForExternalChanges
  cmpLastStorageValue,   \* lastStorageValue when it holds an object
  cmpEv,                 \* history: what the last comparison did
  fanSubscribers,        \* a HybridSignal's subscribers that may throw
  fanThrows,             \* the callbacks among them that throw when called
  fanCurrentValue, fanDebounce, fanQueue,  \* its value, timer and writes
  fanEv, fanOps,         \* history: what the last operation on it did
  eqHybrid,              \* a HybridSignal: currentValue, isInitialized, lastStorageValue
  eqIndexedDB,           \* an IndexedDBHybridSignal given the same calls: currentValue
  eqSubscribers,         \* the callbacks subscribed to both
  eqLoading, eqWrites,   \* both: load pending, values being written
  eqEv, eqOps,           \* history: callbacks called and result, of each
  usHook,                \* the hook the components use
  usOptions,             \* their options: defaultValue, fallbackToDefault
  usStorage,             \* the entry of their key (null when absent)
  usQueue,               \* their storage calls in flight, in issue order
  usValue, usLoading, usError, usMounted,  \* per component: state of the hook
  subscriptions,         \* subscription manager: callbacks of the key
  pollIntervals,         \* subscription manager: the key is being polled
  lastValues,            \* subscription manager: last known value of the key
  usEv,                  \* history: what the last step did
  usWritten,             \* history: the component whose write completed last
  usOps, usFail,
  hsOptions,             \* a useHybridSignal caller's immediate and debounceMs
  hsCurrentValue, hsDebounce, hsWrites,  \* its store: value, timer, writes
  hsStorage,             \* the entry its store writes
  hsLast,                \* history: the latest hook-level set
  hsOps,
  sgCurrentValue, sgSubscribers,  \* a StorageSignal's fields
  sgStorage,             \* the entry of its key
  sgQueue,               \* its storage calls in flight, in issue order
  sgEv,                  \* history: what the last step did
  sgBatch,               \* history: the updates issued since a known value
  sgOps, sgFail,
  ckCookie,              \* document.cookie: per cookie name, its text if set
  ckSet,                 \* history: the value last given to setItem, per key
  ckEv                   \* history: the last call on the cookie driver

vars == << storage, queue, hybridSignalRegistry, nInst, currentValue,
           isInitialized, debounceTimeout, lastStorageValue, subscribers,
           timeouts, intervals, nextId, mounted, signalRef, pollIntervalRef,
           value, options, ev, window, lastLocal, chain, nOps, nFail,
           cmpStorageValue, cmpLastStorageValue, cmpEv, fanSubscribers,
           fanThrows, fanCurrentValue, fanDebounce, fanQueue, fanEv, fanOps,
           eqHybrid, eqIndexedDB, eqSubscribers, eqLoading, eqWrites, eqEv,
           eqOps, usHook, usOptions, usStorage, usQueue, usValue, usLoading,
           usError, usMounted, subscriptions, pollIntervals, lastValues, usEv,
           usWritten, usOps, usFail, hsOptions, hsCurrentValue, hsDebounce,
           hsWrites, hsStorage, hsLast, hsOps, sgCurrentValue, sgSubscribers,
           sgStorage, sgQueue, sgEv, sgBatch, sgOps, sgFail, ckCookie, ckSet,
           ckEv >>

\* The state of the stores and hooks modelled on integer values.
storeVars == << storage, queue, hybridSignalRegistry, nInst, currentValue,
                isInitialized, debounceTimeout, lastStorageValue, subscribers,
                timeouts, intervals, nextId, mounted, signalRef,
                pollIntervalRef, value, options, ev, window, lastLocal, chain,
                nOps, nFail >>

\* The state of the studies of single functions on structured values.
cmpVars == << cmpStorageValue, cmpLastStorageValue, cmpEv >>
fanVars == << fanSubscribers, fanThrows, fanCurrentValue, fanDebounce,
             fanQueue, fanEv, fanOps >>
eqVars == << eqHybrid, eqIndexedDB, eqSubscribers, eqLoading, eqWrites, eqEv,
            eqOps >>
usVars == << usHook, usOptions, usStorage, usQueue, usValue, usLoading,
            usError, usMounted, subscriptions, pollIntervals, lastValues, usEv,
            usWritten, usOps, usFail >>
hsVars == << hsOptions, hsCurrentValue, hsDebounce, hsWrites, hsStorage,
            hsLast, hsOps >>
sgVars == << sgCurrentValue, sgSubscribers, sgStorage, sgQueue, sgEv, sgBatch,
            sgOps, sgFail >>
ckVars == << ckCookie, ckSet, ckEv >>
laterVars == << hsVars, sgVars, ckVars >>
sideVars == << cmpVars, fanVars, eqVars, usVars, laterVars >>

sigVars == << currentValue, isInitialized, debounceTimeout, lastStorageValue,
              subscribers >>
hookVars == << mounted, signalRef, pollIntervalRef, options >>
budgetVars == << nOps, nFail >>

\* ---------------------------------------------------------------- helpers
Range(s) == {s[n] : n \in 1..Len(s)}

Without(s, c) == SelectSeq(s, LAMBDA x : x # c)

NoCalls == [c \in Callers |-> << >>]

\* Scenarios followed step by step (any step outside a scenario ends it):
\*   1..7    an external write, then a reconcile, then a second reconcile;
\*   11..14  a remove that completed, then a second remove up to its completion;
\*   15, 16  a remove that completed, then a debounce timer of the store
\*           firing and the write it issues taking effect;
\*   21, 22  a set without debounce, then the calls in flight settling up to
\*           and including its own write (cur counts the calls still ahead).
NoChain == [stage |-> 0, sig |-> None, y |-> Null, ret |-> FALSE, fresh |-> FALSE,
            cur |-> Null, last |-> Null]

\* What the last step did: the operation, the instance and caller it acted
\* for, its value argument (or the value a read returned), its result, the
\* subscriber callbacks it invoked, (for a firing timer) the values set with
\* debounce since the previous firing, and whether the step was overtaken:
\* a timer firing after a setAsync of its instance, a write completing after
\* another write reached the key.  touched: the timer fired after something
\* other than the set that armed it assigned currentValue.  failed: the step resumed a backend call
\* that had rejected; onError: the invocations of options.onError it made.
Event(op, i, c, v, r, calls) ==
  [op |-> op, sig |-> i, caller |-> c, val |-> v, ret |-> r, calls |-> calls,
   win |-> << >>, dirty |-> FALSE, touched |-> FALSE, failed |-> FALSE,
   onError |-> 0]

\* A backend call in flight.  st: "issued" (not yet executed by the backend),
\* "ok" / "err" (executed, continuation not yet run).  res: what a read returned.
\* dirty (history): another write reached the key after this one took effect.
Call(kind, i, v) ==
  [kind |-> kind, sig |-> i, val |-> v, st |-> "issued", res |-> Null,
   dirty |-> FALSE]

\* JSON.stringify on the modelled values: null and the numbers.
Stringify(v) == IF v = Null THEN << "null" >> ELSE << "number", v >>

\* result !== null ? result : this.defaultValue
OrDefault(result) == IF result # Null THEN result ELSE DefaultValue

\* HybridSignal.notify: the calls made to each caller's subscriber callback.
\* (variant: the fan-out stops after the first subscriber)
MutNotifyFirstOnly(init, subs, v) ==
  [c \in Callers |-> IF init /\ subs # << >> /\ c = Head(subs) THEN << v >> ELSE << >>]
Notify(init, subs, v) ==
  [c \in Callers |-> IF init /\ c \in Range(subs) THEN << v >> ELSE << >>]

\* HybridSignal.subscribe: the call made to the new callback.
\* (variant: the new callback is invoked twice)
MutSubscribeTwice(c, init, v) ==
  [d \in Callers |-> IF init /\ d = c THEN << v, v >> ELSE << >>]
SubscribeCalls(c, init, v) ==
  [d \in Callers |-> IF init /\ d = c THEN << v >> ELSE << >>]

\* The subscriber callback of the hook is setValue(newValue).
Deliver(val, calls) ==
  [c \in Callers |-> IF calls[c] # << >> THEN calls[c][Len(calls[c])] ELSE val[c]]

\* clearTimeout / clearInterval (one id pool in a window).
\* (variant: the timer is not cleared)
MutClearNothing(ts, id) == ts
ClearTimer(ts, id) == {t \in ts : t.id # id}

\* ------------------------------------------------------------------- Init
\* No comparison of objects made.
NoCmp == [op |-> "none", storageValue |-> << >>, lastStorageValue |-> << >>,
          ret |-> FALSE, notified |-> FALSE]

CmpIdle ==
  /\ cmpStorageValue = << >>
  /\ cmpLastStorageValue = << >>
  /\ cmpEv = NoCmp

\* No operation made on the HybridSignal with throwing subscribers.
NoFan == [op |-> "none", val |-> Null, persist |-> FALSE, called |-> << >>,
          threw |-> FALSE, persisted |-> FALSE]

FanIdle ==
  /\ fanSubscribers = << >>
  /\ fanThrows = {}
  /\ fanCurrentValue = DefaultValue
  /\ fanDebounce = Null
  /\ fanQueue = << >>
  /\ fanEv = NoFan
  /\ fanOps = 0

\* No call made on the pair of signals.
NoEq == [op |-> "none", hybridCalls |-> NoCalls, indexedDBCalls |-> NoCalls,
         hybridRet |-> FALSE, indexedDBRet |-> FALSE]

\* Both constructors have run (useHybridSignal.ts lines 25-31,
\* useIndexedDBHybridSignal.ts lines 29-36): currentValue = defaultValue and
\* the load is pending.
EqIdle ==
  /\ eqHybrid = [currentValue |-> DefaultValue, isInitialized |-> FALSE,
                 lastStorageValue |-> Null]
  /\ eqIndexedDB = [currentValue |-> DefaultValue]
  /\ eqSubscribers = << >>
  /\ eqLoading = TRUE
  /\ eqWrites = << >>
  /\ eqEv = NoEq
  /\ eqOps = 0

\* ---- JavaScript values held by useUnstorage and useIndexedDBStorage
JsUndefined == [t |-> "undefined"]
JsNull == [t |-> "null"]
JsNumber(n) == [t |-> "number", n |-> n]
JsString(str) == [t |-> "string", s |-> str]
JsBoolean(b) == [t |-> "boolean", b |-> b]

\* The values that count as true in a condition.
Truthy(x) ==
  CASE x.t = "number" -> x.n # 0
    [] x.t = "string" -> x.s # ""
    [] x.t = "boolean" -> x.b
    [] OTHER -> FALSE

\* No step made by a component.
NoUs == [op |-> "none", c |-> 0, ok |-> TRUE, absent |-> FALSE]

\* No write completed by a component.
NoWrite == 0

\* No component rendered, the subscription manager empty (part_003 lines
\* 19-23 and 110, useUnstorage.ts lines 160-164 and 251).
UsStart(hook, o) ==
  /\ usHook = hook
  /\ usOptions = o
  /\ usStorage = JsNull
  /\ usQueue = << >>
  /\ usValue = [c \in Components |-> JsNull]
  /\ usLoading = [c \in Components |-> FALSE]
  /\ usError = [c \in Components |-> FALSE]
  /\ usMounted = [c \in Components |-> "no"]
  /\ subscriptions = << >>
  /\ pollIntervals = FALSE
  /\ lastValues = JsUndefined
  /\ usEv = NoUs
  /\ usWritten = NoWrite
  /\ usOps = 0 /\ usFail = 0

UsIdle ==
  UsStart("useUnstorage",
          [defaultValue |-> JsUndefined, fallbackToDefault |-> TRUE])

\* A call of the hook's set without its second argument.
NoOptions == [n \in {} |-> TRUE]

\* No hook-level set made.
NoSet == [op |-> "none", val |-> Null, options |-> NoOptions]

\* A loaded store on an empty storage, used by one caller.
HsStart(o) ==
  /\ hsOptions = o
  /\ hsCurrentValue = DefaultValue
  /\ hsDebounce = Null
  /\ hsWrites = << >>
  /\ hsStorage = Null
  /\ hsLast = NoSet
  /\ hsOps = 0

\* The caller's hook options left at their defaults (lines 174-175).
HsIdle == HsStart([immediate |-> TRUE, debounceMs |-> 100])

\* No step made on the StorageSignal.
NoSg == [op |-> "none", val |-> Null, ok |-> TRUE, prior |-> Null,
         called |-> << >>, rejected |-> FALSE]

\* No update issued.
NoBatch == [start |-> Null, k |-> 0, clean |-> FALSE]

\* A storage call of the StorageSignal.
SgCall(kind, v) == [kind |-> kind, val |-> v, st |-> "issued", res |-> Null]

\* The constructor has run (useUnstorage.signals.ts lines 12-18):
\* currentValue = defaultValue and load() awaits its getItem.
SgStart(entry) ==
  /\ sgCurrentValue = DefaultValue
  /\ sgSubscribers = << >>
  /\ sgStorage = entry
  /\ sgQueue = << SgCall("load", Null) >>
  /\ sgEv = NoSg
  /\ sgBatch = NoBatch
  /\ sgOps = 0 /\ sgFail = 0

SgIdle == SgStart(Null)

\* The keys the cookie driver is used with.
CkKeys == {"a", "b"}

\* No cookie of the name.
NoCookie == [set |-> FALSE, text |-> << >>]

\* No value given to setItem yet.
NotSet == [t |-> "unset"]

\* No call made on the cookie driver.
NoCk == [op |-> "none", key |-> "a", ret |-> JsNull]

\* An empty cookie jar.
CkIdle ==
  /\ ckCookie = [k \in CkKeys |-> NoCookie]
  /\ ckSet = [k \in CkKeys |-> NotSet]
  /\ ckEv = NoCk

LaterIdle == HsIdle /\ SgIdle /\ CkIdle

StoreInit ==
  /\ storage \in {Null, 1}
  /\ queue = << >>
  /\ hybridSignalRegistry = None
  /\ nInst = 0
  /\ currentValue = [i \in Inst |-> DefaultValue]
  /\ isInitialized = [i \in Inst |-> FALSE]
  /\ debounceTimeout = [i \in Inst |-> Null]
  /\ lastStorageValue = [i \in Inst |-> Null]
  /\ subscribers = [i \in Inst |-> << >>]
  /\ timeouts = {}
  /\ intervals = {}
  /\ nextId = 1
  /\ mounted = [c \in Callers |-> FALSE]
  /\ signalRef = [c \in Callers |-> None]
  /\ pollIntervalRef = [c \in Callers |-> Null]
  /\ value = [c \in Callers |-> DefaultValue]
  /\ options = [c \in Callers |-> [subscribe |-> TRUE,
                                     pollInterval |-> DefaultPollInterval]]
  /\ ev = Event("init", None, None, Null, FALSE, NoCalls)
  /\ window = [i \in Inst |-> << >>]
  /\ lastLocal = [i \in Inst |-> Null]
  /\ chain = NoChain
  /\ nOps = 0 /\ nFail = 0

Init == StoreInit /\ CmpIdle /\ FanIdle /\ EqIdle /\ UsIdle /\ LaterIdle

\* ------------------------------------------------- HybridSignal operations
\* Registry lookup of the effect: the registered instance, else a new one.
\* (variant: the registry is not consulted)
MutAlwaysCreate(reg, n) == n + 1
GetOrCreate(reg, n) == IF reg = None THEN n + 1 ELSE reg

\* Effect cleanup: the registry entry after unsubscribing.
\* (variant: the entry is never deleted)
MutNeverEvict(reg, subs) == reg
\* (variant: every cleanup deletes the entry)
MutAlwaysEvict(reg, subs) == None
Evict(reg, subs) == IF subs = << >> THEN None ELSE reg

\* The value HybridSignal.set stores in memory.
SetValue(old, v) == v

\* The timers pending after set(value, {persist: true, debounce: true}).
ArmDebounce(i, v) ==
  LET cleared == IF debounceTimeout[i] # Null
                 THEN ClearTimer(timeouts, debounceTimeout[i])
                 ELSE timeouts
  IN cleared \cup {[id |-> nextId, sig |-> i, value |-> v, superseded |-> FALSE,
                     touched |-> FALSE]}

\* History: currentValue of instance i was assigned by something other than
\* the set that armed its pending timer.
Touch(ts, i) == {IF t.sig = i THEN [t EXCEPT !.touched = TRUE] ELSE t : t \in ts}

\* The timers pending after setAsync: it clears nothing (history: it marks
\* the timers of the instance that were armed before it).
AfterSetAsync(i) ==
  Touch({IF t.sig = i THEN [t EXCEPT !.superseded = TRUE] ELSE t : t \in timeouts},
        i)

\* Whether the effect sets up polling (line 200).
PollEnabled(subscribe, pollInterval) == subscribe /\ pollInterval > 0

\* The period handed to setInterval (line 202).
\* (variant: the requested period is used as given)
MutNoFloor(pollInterval) == pollInterval
SafePollInterval(pollInterval) ==
  IF pollInterval >= PollFloor THEN pollInterval ELSE PollFloor

\* useHybridSignal effect (lines 182-210): get or create, subscribe, poll.
\* Callers are numbered in the order of their first mount.
Attach(c, subscribe, pollInterval) ==
  /\ ~mounted[c]
  /\ c > 1 => signalRef[c - 1] # None
  /\ nOps < MaxOps
  /\ GetOrCreate(hybridSignalRegistry, nInst) \in Inst
  /\ PollEnabled(subscribe, pollInterval) => nextId <= MaxIds
  /\ LET i == GetOrCreate(hybridSignalRegistry, nInst)
         poll == PollEnabled(subscribe, pollInterval)
         created == i = nInst + 1
         init == IF created THEN FALSE ELSE isInitialized[i]
         cur == IF created THEN DefaultValue ELSE currentValue[i]
         calls == SubscribeCalls(c, init, cur)
     IN /\ nInst' = IF created THEN i ELSE nInst
        /\ hybridSignalRegistry' = i
        /\ currentValue' = [currentValue EXCEPT ![i] = cur]
        /\ isInitialized' = [isInitialized EXCEPT ![i] = init]
        /\ queue' = IF created THEN Append(queue, Call("load", i, Null)) ELSE queue
        /\ subscribers' = [subscribers EXCEPT ![i] = Append(Without(@, c), c)]
        /\ signalRef' = [signalRef EXCEPT ![c] = i]
        /\ value' = Deliver(value, calls)
        /\ intervals' = IF poll
                        THEN intervals \cup
                               {[id |-> nextId, sig |-> i, caller |-> c,
                                 period |-> SafePollInterval(pollInterval)]}
                        ELSE intervals
        /\ pollIntervalRef' = IF poll THEN [pollIntervalRef EXCEPT ![c] = nextId]
                              ELSE pollIntervalRef
        /\ nextId' = IF poll THEN nextId + 1 ELSE nextId
        /\ ev' = Event("attach", i, c, Null, created, calls)
  /\ mounted' = [mounted EXCEPT ![c] = TRUE]
  /\ options' = [options EXCEPT ![c] = [subscribe |-> subscribe,
                                        pollInterval |-> pollInterval]]
  /\ nOps' = nOps + 1
  /\ chain' = NoChain
  /\ UNCHANGED << storage, debounceTimeout, lastStorageValue, timeouts, window,
                  lastLocal, nFail, sideVars >>

\* The unsubscribe function returned by HybridSignal.subscribe (lines 71-74):
\* this.subscribers.delete(callback).
\* (variant: the subscriber set is cleared)
MutUnsubscribeAll(subs, c) == << >>
Unsubscribe(subs, c) == Without(subs, c)

\* The timers left by the cleanup's `if (pollIntervalRef.current)
\* clearInterval(pollIntervalRef.current)` (lines 214-216).
\* (variant: the cleanup clears no timer)
MutCleanupKeepsPoll(ts, ref) == ts
AfterCleanup(ts, ref) == IF ref # Null THEN ClearTimer(ts, ref) ELSE ts

\* The setTimeout callbacks left by the whole cleanup (lines 212-221): it
\* calls clearInterval on the hook's poll id and nothing on the store's
\* debounce timer, also when it evicts the store (subs: who stays subscribed).
\* (variant: evicting a store cancels its debounce timer)
MutCleanupCancelsDebounce(ts, ref, i, subs) ==
  IF subs = << >> THEN {t \in ts : t.sig # i} ELSE ts
CleanupTimeouts(ts, ref, i, subs) == AfterCleanup(ts, ref)

\* useHybridSignal effect cleanup (lines 212-221).
Detach(c) ==
  /\ mounted[c]
  /\ nOps < MaxOps
  /\ LET i == signalRef[c]
         subs == Unsubscribe(subscribers[i], c)
     IN /\ subscribers' = [subscribers EXCEPT ![i] = subs]
        /\ intervals' = AfterCleanup(intervals, pollIntervalRef[c])
        /\ timeouts' = CleanupTimeouts(timeouts, pollIntervalRef[c], i, subs)
        /\ hybridSignalRegistry' = Evict(hybridSignalRegistry, subs)
        /\ ev' = Event("detach", i, c, Null, FALSE, NoCalls)
  /\ mounted' = [mounted EXCEPT ![c] = FALSE]
  /\ nOps' = nOps + 1
  /\ chain' = NoChain
  /\ UNCHANGED << storage, queue, nInst, currentValue, isInitialized,
                  debounceTimeout, lastStorageValue, nextId, signalRef,
                  pollIntervalRef, options, value, window, lastLocal, nFail,
                  sideVars >>

\* The backend calls in flight after a set without debounce (lines 86, 95-97):
\* persistToStorage(value) at once if persist, nothing otherwise.
\* (variant: the write is issued whatever persist says)
MutPersistAnyway(q, i, v, persist) == Append(q, Call("persist", i, v))
PersistNow(q, i, v, persist) ==
  IF persist THEN Append(q, Call("persist", i, v)) ELSE q

\* HybridSignal.set (lines 78-99), reached from the hook's set (225-239).
SetOn(op, c, v, persist, debounce) ==
  LET i == signalRef[c]
      nv == SetValue(currentValue[i], v)
      calls == Notify(isInitialized[i], subscribers[i], nv)
  IN /\ mounted[c]
     /\ nOps < MaxOps
     /\ (persist /\ debounce) => nextId <= MaxIds
     /\ currentValue' = [currentValue EXCEPT ![i] = nv]
     /\ value' = Deliver(value, calls)
     /\ IF persist /\ debounce
        THEN /\ timeouts' = ArmDebounce(i, v)
             /\ debounceTimeout' = [debounceTimeout EXCEPT ![i] = nextId]
             /\ nextId' = nextId + 1
             /\ window' = [window EXCEPT ![i] = Append(@, v)]
             /\ queue' = queue
        ELSE /\ queue' = PersistNow(queue, i, v, persist)
             /\ timeouts' = Touch(timeouts, i)
             /\ UNCHANGED << debounceTimeout, nextId, window >>
     /\ lastLocal' = [lastLocal EXCEPT ![i] = v]
     /\ ev' = Event(op, i, c, v, persist, calls)
     /\ nOps' = nOps + 1
     /\ chain' = IF persist /\ ~debounce
                 THEN [NoChain EXCEPT !.stage = 21, !.sig = i, !.y = v,
                         !.cur = Len(queue) + 1]
                 ELSE NoChain
     /\ UNCHANGED << storage, hybridSignalRegistry, nInst, isInitialized,
                     lastStorageValue, subscribers, intervals, hookVars, nFail,
                     sideVars >>

Set(c, v, persist, debounce) == SetOn("set", c, v, persist, debounce)

\* The updater the callers pass to update / updateAsync: a capped increment.
Updater(v) == IF v < MaxVal THEN v + 1 ELSE v

\* HybridSignal.update (lines 102-105).
Update(c, persist, debounce) ==
  /\ mounted[c]
  /\ SetOn("set", c, Updater(currentValue[signalRef[c]]), persist, debounce)

\* HybridSignal.setAsync (lines 113-117) up to its await.
SetAsyncOn(op, c, v) ==
  LET i == signalRef[c]
      calls == Notify(isInitialized[i], subscribers[i], v)
  IN /\ mounted[c]
     /\ nOps < MaxOps
     /\ currentValue' = [currentValue EXCEPT ![i] = v]
     /\ value' = Deliver(value, calls)
     /\ queue' = Append(queue, Call("setAsync", i, v))
     /\ timeouts' = AfterSetAsync(i)
     /\ lastLocal' = [lastLocal EXCEPT ![i] = v]
     /\ ev' = Event(op, i, c, v, TRUE, calls)
     /\ nOps' = nOps + 1
     /\ chain' = NoChain
     /\ UNCHANGED << storage, hybridSignalRegistry, nInst, isInitialized,
                     debounceTimeout, lastStorageValue, subscribers, intervals,
                     nextId, hookVars, window, nFail, sideVars >>

SetAsync(c, v) == SetAsyncOn("setAsync", c, v)

\* HybridSignal.updateAsync (lines 120-123).
UpdateAsync(c) ==
  /\ mounted[c]
  /\ SetAsyncOn("setAsync", c, Updater(currentValue[signalRef[c]]))

\* HybridSignal.remove (lines 144-153) up to its await.
Remove(c) ==
  LET i == signalRef[c]
  IN /\ mounted[c]
     /\ nOps < MaxOps
     /\ queue' = Append(queue, Call("remove", i, Null))
     /\ ev' = Event("remove", i, c, Null, FALSE, NoCalls)
     /\ nOps' = nOps + 1
     /\ chain' = IF chain.stage = 11 /\ chain.sig = i
                 THEN [chain EXCEPT !.stage = 12] ELSE NoChain
     /\ UNCHANGED << storage, hybridSignalRegistry, nInst, sigVars, timeouts,
                     intervals, nextId, hookVars, value, window, lastLocal, nFail,
                     sideVars >>

\* HybridSignal.checkForExternalChanges (lines 126-142) up to its await.
CheckCall(op, i, c) ==
  /\ nOps < MaxOps
  /\ queue' = Append(queue, Call("check", i, Null))
  /\ ev' = Event(op, i, c, Null, FALSE, NoCalls)
  /\ nOps' = nOps + 1
  /\ chain' = IF chain.stage = 1 /\ isInitialized[i] /\ queue = << >>
              THEN [chain EXCEPT !.stage = 2, !.sig = i,
                      !.fresh = Stringify(chain.y) # Stringify(lastStorageValue[i])]
              ELSE IF chain.stage = 4 /\ chain.sig = i /\ queue = << >>
              THEN [chain EXCEPT !.stage = 5]
              ELSE NoChain
  /\ UNCHANGED << storage, hybridSignalRegistry, nInst, sigVars, timeouts,
                  intervals, nextId, hookVars, value, window, lastLocal,
                  nFail, sideVars >>

\* The hook's checkForChanges (lines 260-265).
CheckForChanges(c) ==
  /\ mounted[c]
  /\ CheckCall("check", signalRef[c], c)

\* A tick of the poll timer set up by the effect (lines 203-209).
PollTick(t) ==
  /\ t \in intervals
  /\ CheckCall("check", t.sig, t.caller)

\* The value the timer callback passes to persistToStorage (lines 92-94):
\* the `value` parameter of the set call that armed it.
\* (variant: currentValue is read when the timer fires)
MutFiredValueIsMemory(t) == currentValue[t.sig]
FiredValue(t) == t.value

\* The debounce timer of set fires (lines 92-94): persistToStorage(value).
TimerFire(t) ==
  /\ t \in timeouts
  /\ timeouts' = timeouts \ {t}
  /\ queue' = Append(queue, Call("persist", t.sig, FiredValue(t)))
  /\ window' = [window EXCEPT ![t.sig] = << >>]
  /\ ev' = [Event("timerFire", t.sig, None, FiredValue(t), TRUE, NoCalls)
              EXCEPT !.win = window[t.sig], !.dirty = t.superseded,
                     !.touched = t.touched]
  /\ chain' = IF chain.stage = 21 THEN chain
              ELSE IF chain.stage = 11 /\ chain.sig = t.sig
              THEN [chain EXCEPT !.stage = 15]
              ELSE NoChain
  /\ UNCHANGED << storage, hybridSignalRegistry, nInst, sigVars, intervals,
                  nextId, hookVars, value, lastLocal, budgetVars, sideVars >>

\* ------------------------------------------------------------ the backend
IsWrite(kind) == kind \in {"persist", "setAsync", "remove"}

FirstIssued == CHOOSE n \in 1..Len(queue) :
                 /\ queue[n].st = "issued"
                 /\ \A m \in 1..(n - 1) : queue[m].st # "issued"

\* Completed writes whose key has been written again since.
Overtaken(q) ==
  [n \in 1..Len(q) |->
     IF q[n].st = "ok" /\ IsWrite(q[n].kind) THEN [q[n] EXCEPT !.dirty = TRUE]
     ELSE q[n]]

\* The backend executes the oldest call not yet executed: getItem reads the
\* entry, setItem / removeItem change it; or the call rejects.
BackendExec(ok) ==
  /\ \E n \in 1..Len(queue) : queue[n].st = "issued"
  /\ ~ok => nFail < MaxFail
  /\ LET n == FirstIssued
         call == queue[n]
         wrote == ok /\ IsWrite(call.kind)
         q == IF wrote THEN Overtaken(queue) ELSE queue
     IN /\ storage' = IF ~wrote THEN storage
                      ELSE IF call.kind = "remove" THEN Null ELSE call.val
        /\ queue' = [q EXCEPT ![n] = [call EXCEPT !.st = IF ok THEN "ok" ELSE "err",
                                                   !.res = IF ok /\ ~wrote
                                                           THEN storage ELSE Null]]
        /\ ev' = Event("backend", call.sig, None, call.val, ok, NoCalls)
        /\ chain' = IF ok /\ chain.stage \in {2, 5, 12, 15}
                    THEN [chain EXCEPT !.stage = @ + 1]
                    ELSE IF ok /\ chain.stage = 21 THEN chain
                    ELSE NoChain
  /\ nFail' = IF ok THEN nFail ELSE nFail + 1
  /\ UNCHANGED << hybridSignalRegistry, nInst, sigVars, timeouts, intervals,
                  nextId, hookVars, value, window, lastLocal, nOps,
                  sideVars >>

\* Another tab or script changes the entry of the key behind the store.
ExternalWrite(y) ==
  /\ nOps < MaxOps
  /\ y # storage
  /\ storage' = y
  /\ queue' = Overtaken(queue)
  /\ ev' = Event("external", None, None, y, TRUE, NoCalls)
  /\ chain' = [NoChain EXCEPT !.stage = 1, !.y = y]
  /\ nOps' = nOps + 1
  /\ UNCHANGED << hybridSignalRegistry, nInst, sigVars, timeouts, intervals,
                  nextId, hookVars, value, window, lastLocal, nFail,
                  sideVars >>

\* ---------------------------------------- continuations (after the await)
Resumable(kind) ==
  /\ queue # << >>
  /\ Head(queue).st # "issued"
  /\ Head(queue).kind = kind

\* Whether the promise of a HybridSignal method rejects when its backend call
\* failed: load, persistToStorage, checkForExternalChanges and remove each
\* catch the error and log it with console.error (lines 41, 59, 138, 150).
Rejects(kind, ok) == FALSE

\* The invocations of options.onError: its only call site is the catch of the
\* poll tick around checkForExternalChanges (lines 204-208); it is counted
\* here for every checkForExternalChanges.
OnErrorCalls(kind, rejected) == IF kind = "check" /\ rejected THEN 1 ELSE 0

\* History: the calls in flight when a set without debounce was made settle
\* one by one; stage 22 is reached when its own write has settled.
Settling(ch, ok) ==
  IF ch.stage = 21 /\ ok
  THEN IF ch.cur = 1 THEN [ch EXCEPT !.stage = 22] ELSE [ch EXCEPT !.cur = @ - 1]
  ELSE NoChain

\* The history fields of a continuation's event.
Settled(e, call) ==
  [e EXCEPT !.failed = call.st = "err",
            !.onError = OnErrorCalls(call.kind,
                                     Rejects(call.kind, call.st = "ok"))]

\* HybridSignal.load after getItem (lines 36-45): the value it puts in memory.
LoadedValue(cur, res, ok) == IF ok THEN OrDefault(res) ELSE DefaultValue

\* isInitialized after load() (lines 39 and 44): set on both paths.
\* (variant: a failed load leaves the store uninitialized)
MutFailedLoadNotReady(ok) == ok
ReadyAfterLoad(ok) == TRUE

LoadDone ==
  /\ Resumable("load")
  /\ LET call == Head(queue)
         i == call.sig
         ok == call.st = "ok"
         nv == LoadedValue(currentValue[i], call.res, ok)
         calls == Notify(TRUE, subscribers[i], nv)
     IN /\ currentValue' = [currentValue EXCEPT ![i] = nv]
        /\ lastStorageValue' = [lastStorageValue EXCEPT
                                  ![i] = IF ok THEN OrDefault(call.res) ELSE @]
        /\ isInitialized' = [isInitialized EXCEPT ![i] = ReadyAfterLoad(ok)]
        /\ value' = Deliver(value, calls)
        /\ ev' = Settled(Event("loadDone", i, None, call.res, ok, calls), call)
        /\ timeouts' = Touch(timeouts, i)
        /\ chain' = Settling(chain, ok)
  /\ queue' = Tail(queue)
  /\ UNCHANGED << storage, hybridSignalRegistry, nInst, debounceTimeout,
                  subscribers, intervals, nextId, hookVars, window,
                  lastLocal, budgetVars, sideVars >>

\* HybridSignal.persistToStorage after setItem (lines 58-61).
\* (variant: lastStorageValue is not updated)
MutPersistKeepsLast(old, v, ok) == old
\* (variant: lastStorageValue is updated although the write failed)
MutPersistIgnoresFailure(old, v, ok) == v
PersistedLast(old, v, ok) == IF ok THEN v ELSE old

PersistDone ==
  /\ Resumable("persist")
  /\ LET call == Head(queue)
         i == call.sig
         ok == call.st = "ok"
     IN /\ lastStorageValue' = [lastStorageValue EXCEPT
                                  ![i] = PersistedLast(@, call.val, ok)]
        /\ ev' = [Settled(Event("persistDone", i, None, call.val, ok, NoCalls),
                            call) EXCEPT !.dirty = call.dirty]
        /\ chain' = Settling(chain, ok)
  /\ queue' = Tail(queue)
  /\ UNCHANGED << storage, hybridSignalRegistry, nInst, currentValue,
                  isInitialized, debounceTimeout, subscribers, timeouts,
                  intervals, nextId, hookVars, value, window, lastLocal,
                  budgetVars, sideVars >>

\* setAsync after its await of persistToStorage: its promise resolves.
SetAsyncDone ==
  /\ Resumable("setAsync")
  /\ LET call == Head(queue)
         i == call.sig
         ok == call.st = "ok"
     IN /\ lastStorageValue' = [lastStorageValue EXCEPT
                                  ![i] = PersistedLast(@, call.val, ok)]
        /\ ev' = [Settled(Event("setAsyncDone", i, None, call.val, ok, NoCalls),
                            call) EXCEPT !.dirty = call.dirty]
        /\ chain' = Settling(chain, ok)
  /\ queue' = Tail(queue)
  /\ UNCHANGED << storage, hybridSignalRegistry, nInst, currentValue,
                  isInitialized, debounceTimeout, subscribers, timeouts,
                  intervals, nextId, hookVars, value, window, lastLocal,
                  budgetVars, sideVars >>

\* The comparison of checkForExternalChanges (line 131).
\* (variant: compared with currentValue instead of lastStorageValue)
MutDivergedFromMemory(sv, last, cur) == Stringify(sv) # Stringify(cur)
Diverged(sv, last, cur) == Stringify(sv) # Stringify(last)

\* The result of checkForExternalChanges: true inside the try when the value
\* read differs (lines 131-135), false otherwise and in the catch (136-141).
\* (variant: a failed read is compared like a miss)
MutCheckIgnoresFailure(ok, differs) == differs
CheckResult(ok, differs) == ok /\ differs

\* checkForExternalChanges after getItem (lines 129-141).
CheckDone ==
  /\ Resumable("check")
  /\ LET call == Head(queue)
         i == call.sig
         ok == call.st = "ok"
         sv == OrDefault(call.res)
         changed == CheckResult(ok, Diverged(sv, lastStorageValue[i],
                                             currentValue[i]))
         calls == IF changed THEN Notify(isInitialized[i], subscribers[i], sv)
                  ELSE NoCalls
     IN /\ lastStorageValue' = IF changed
                               THEN [lastStorageValue EXCEPT ![i] = sv]
                               ELSE lastStorageValue
        /\ currentValue' = IF changed THEN [currentValue EXCEPT ![i] = sv]
                           ELSE currentValue
        /\ value' = Deliver(value, calls)
        /\ timeouts' = IF changed THEN Touch(timeouts, i) ELSE timeouts
        /\ lastLocal' = IF changed THEN [lastLocal EXCEPT ![i] = Null]
                        ELSE lastLocal
        /\ ev' = Settled(Event("checkDone", i, None, call.res, changed, calls),
                         call)
        /\ chain' = IF chain.stage = 3
                    THEN [chain EXCEPT !.stage = 4, !.ret = changed,
                            !.cur = IF changed THEN sv ELSE currentValue[i],
                            !.last = IF changed THEN sv ELSE lastStorageValue[i]]
                    ELSE IF chain.stage = 6 THEN [chain EXCEPT !.stage = 7]
                    ELSE Settling(chain, ok)
  /\ queue' = Tail(queue)
  /\ UNCHANGED << storage, hybridSignalRegistry, nInst, isInitialized,
                  debounceTimeout, subscribers, intervals, nextId,
                  hookVars, window, budgetVars, sideVars >>

\* HybridSignal.remove after removeItem (lines 147-152): what it leaves in
\* currentValue and in lastStorageValue.
\* (variant: memory is not reset)
MutRemoveKeepsMemory(cur, ok) == cur
RemovedValue(cur, ok) == IF ok THEN DefaultValue ELSE cur

\* (variant: lastStorageValue takes the value memory held before the reset)
MutRemovedLastIsOldMemory(last, cur, ok) == IF ok THEN cur ELSE last
RemovedLast(last, cur, ok) == IF ok THEN DefaultValue ELSE last

RemoveDone ==
  /\ Resumable("remove")
  /\ LET call == Head(queue)
         i == call.sig
         ok == call.st = "ok"
         calls == IF ok THEN Notify(isInitialized[i], subscribers[i], DefaultValue)
                  ELSE NoCalls
     IN /\ currentValue' = [currentValue EXCEPT ![i] = RemovedValue(@, ok)]
        /\ lastStorageValue' = [lastStorageValue EXCEPT
                                  ![i] = RemovedLast(@, currentValue[i], ok)]
        /\ value' = Deliver(value, calls)
        /\ timeouts' = IF ok THEN Touch(timeouts, i) ELSE timeouts
        /\ lastLocal' = IF ok THEN [lastLocal EXCEPT ![i] = DefaultValue]
                        ELSE lastLocal
        /\ ev' = [Settled(Event("removeDone", i, None, Null, ok, calls), call)
                    EXCEPT !.dirty = call.dirty]
        /\ chain' = IF chain.stage = 13 THEN [chain EXCEPT !.stage = 14]
                    ELSE IF ok /\ ~call.dirty /\ Tail(queue) = << >>
                    THEN [NoChain EXCEPT !.stage = 11, !.sig = i, !.y = storage,
                            !.cur = RemovedValue(currentValue[i], ok),
                            !.last = RemovedLast(lastStorageValue[i],
                                                 currentValue[i], ok)]
                    ELSE Settling(chain, ok)
  /\ queue' = Tail(queue)
  /\ UNCHANGED << storage, hybridSignalRegistry, nInst, isInitialized,
                  debounceTimeout, subscribers, intervals, nextId,
                  hookVars, window, budgetVars, sideVars >>

\* ------------------------------------------------------------------- Next
\* The stores are exercised with the default poll period, polling on or off.
Next ==
  \/ \E c \in Callers, subscribe \in BOOLEAN :
       Attach(c, subscribe, DefaultPollInterval)
  \/ \E c \in Callers : Detach(c)
  \/ \E c \in Callers, v \in Values, persist \in BOOLEAN, debounce \in BOOLEAN :
       Set(c, v, persist, debounce)
  \/ \E c \in Callers, persist \in BOOLEAN, debounce \in BOOLEAN :
       Update(c, persist, debounce)
  \/ \E c \in Callers, v \in Values : SetAsync(c, v)
  \/ \E c \in Callers : UpdateAsync(c)
  \/ \E c \in Callers : Remove(c)
  \/ \E c \in Callers : CheckForChanges(c)
  \/ \E t \in intervals : PollTick(t)
  \/ \E t \in timeouts : TimerFire(t)
  \/ \E ok \in BOOLEAN : BackendExec(ok)
  \/ \E y \in Values : ExternalWrite(y)
  \/ LoadDone
  \/ PersistDone
  \/ SetAsyncDone
  \/ CheckDone
  \/ RemoveDone

Spec == Init /\ [][Next]_vars

\* The life of the stores under attach, detach, set, remove and external
\* writes; the storage answers every call it is given and the function
\* awaiting the answer is resumed.
NextLive ==
  \/ \E c \in Callers : Attach(c, TRUE, DefaultPollInterval)
  \/ \E c \in Callers : Detach(c)
  \/ \E c \in Callers, v \in Values, debounce \in BOOLEAN :
       Set(c, v, TRUE, debounce)
  \/ \E c \in Callers : Remove(c)
  \/ \E t \in timeouts : TimerFire(t)
  \/ \E y \in Values : ExternalWrite(y)
  \/ \E ok \in BOOLEAN : BackendExec(ok)
  \/ LoadDone
  \/ PersistDone
  \/ RemoveDone

SpecLive ==
  /\ Init
  /\ [][NextLive]_vars
  /\ WF_vars(\E ok \in BOOLEAN : BackendExec(ok))
  /\ WF_vars(LoadDone)
  /\ WF_vars(PersistDone)
  /\ WF_vars(RemoveDone)

\* The hook's polling alone, over the poll periods a caller may ask for:
\* none, zero, below the floor, the floor, the default.
PollIntervals == {0 - 1, 0, 100, PollFloor, DefaultPollInterval}

NextPoll ==
  \/ \E c \in Callers, subscribe \in BOOLEAN, pollInterval \in PollIntervals :
       Attach(c, subscribe, pollInterval)
  \/ \E c \in Callers : Detach(c)
  \/ \E t \in intervals : PollTick(t)
  \/ \E ok \in BOOLEAN : BackendExec(ok)
  \/ LoadDone
  \/ CheckDone

SpecPoll == Init /\ [][NextPoll]_vars

\* The callers attach with or without polling and leave the store to its
\* poll timers while other writers change the entry: every check made is a
\* tick of a timer.
NextWatch ==
  \/ \E c \in Callers, subscribe \in BOOLEAN :
       \E pollInterval \in {0, DefaultPollInterval} :
         Attach(c, subscribe, pollInterval)
  \/ \E c \in Callers : Detach(c)
  \/ \E t \in intervals : PollTick(t)
  \/ \E y \in Values : ExternalWrite(y)
  \/ \E ok \in BOOLEAN : BackendExec(ok)
  \/ LoadDone
  \/ CheckDone

SpecWatch == Init /\ [][NextWatch]_vars

\* ------------------------------------- the comparison of stored objects
\* A stored object: its properties in insertion order, the keys distinct.
Keys == {"a", "b"}

Objects ==
  UNION {{o \in [1..n -> [key : Keys, val : Values]] :
            \A j, k \in 1..n : o[j].key = o[k].key => j = k} : n \in 0..MaxProps}

\* The text of a number.
Digits == << "0", "1", "2", "3" >>
ToText(v) == Digits[v + 1]

\* JSON.stringify of an object: key and value texts in insertion order.
JsonStringify(o) ==
  [n \in 1..(2 * Len(o)) |->
     IF n % 2 = 1 THEN o[(n + 1) \div 2].key ELSE ToText(o[n \div 2].val)]

\* checkForExternalChanges (lines 126-137) on objects: the value read is
\* compared with lastStorageValue through JSON.stringify; a difference is
\* adopted, notified and returned as true.
CmpCheck ==
  LET changed == JsonStringify(cmpStorageValue) # JsonStringify(cmpLastStorageValue)
  IN /\ cmpLastStorageValue' = IF changed THEN cmpStorageValue
                                ELSE cmpLastStorageValue
     /\ cmpEv' = [op |-> "check", storageValue |-> cmpStorageValue,
                  lastStorageValue |-> cmpLastStorageValue, ret |-> changed,
                  notified |-> changed]
     /\ UNCHANGED << cmpStorageValue, storeVars, fanVars, eqVars, usVars,
                  laterVars >>

\* Another writer replaces the entry by an object it built in its own order.
CmpExternalWrite(o) ==
  /\ o # cmpStorageValue
  /\ cmpStorageValue' = o
  /\ cmpEv' = [NoCmp EXCEPT !.op = "external", !.storageValue = o,
                           !.lastStorageValue = cmpLastStorageValue]
  /\ UNCHANGED << cmpLastStorageValue, storeVars, fanVars, eqVars, usVars,
                  laterVars >>

InitCmp ==
  /\ StoreInit
  /\ FanIdle
  /\ EqIdle
  /\ UsIdle
  /\ LaterIdle
  /\ storage = Null
  /\ cmpStorageValue \in Objects
  /\ cmpLastStorageValue \in Objects
  /\ cmpEv = NoCmp

NextCmp ==
  \/ CmpCheck
  \/ \E o \in Objects : CmpExternalWrite(o)

SpecCmp == InitCmp /\ [][NextCmp]_vars

\* ------------------------- one HybridSignal whose subscribers may throw
\* The store is loaded (isInitialized) and used directly through subscribe,
\* set and its debounce timer.
Callbacks == 1..NCallbacks

\* HybridSignal.notify (lines 49-53): subscribers.forEach(callback =>
\* callback(currentValue)), in insertion order; an exception thrown by a
\* callback leaves forEach.  The callbacks invoked, the throwing one included.
Called(subs, throws) ==
  IF \E n \in 1..Len(subs) : subs[n] \in throws
  THEN SubSeq(subs, 1, CHOOSE n \in 1..Len(subs) :
                         /\ subs[n] \in throws
                         /\ \A m \in 1..(n - 1) : subs[m] \notin throws)
  ELSE subs

Threw(subs, throws) == \E n \in 1..Len(subs) : subs[n] \in throws

\* HybridSignal.subscribe (lines 64-75): the callback is added (and called).
FanSubscribe(cb, throws) ==
  /\ fanOps < MaxFanOps
  /\ cb \notin Range(fanSubscribers)
  /\ fanSubscribers' = Append(fanSubscribers, cb)
  /\ fanThrows' = IF throws THEN fanThrows \cup {cb} ELSE fanThrows
  /\ fanEv' = [NoFan EXCEPT !.op = "subscribe", !.val = fanCurrentValue,
                           !.called = << cb >>, !.threw = throws]
  /\ fanOps' = fanOps + 1
  /\ UNCHANGED << fanCurrentValue, fanDebounce, fanQueue, storeVars, cmpVars,
                  eqVars, usVars,
                  laterVars >>

\* HybridSignal.set (lines 78-99): an exception of notify() (line 83) leaves
\* set before its `if (persist)` block.
FanSet(v, persist, debounce) ==
  LET threw == Threw(fanSubscribers, fanThrows)
  IN /\ fanOps < MaxFanOps
     /\ fanCurrentValue' = v
     /\ fanDebounce' = IF ~threw /\ persist /\ debounce THEN v ELSE fanDebounce
     /\ fanQueue' = IF ~threw /\ persist /\ ~debounce THEN Append(fanQueue, v)
                    ELSE fanQueue
     /\ fanEv' = [op |-> "set", val |-> v, persist |-> persist,
                  called |-> Called(fanSubscribers, fanThrows), threw |-> threw,
                  persisted |-> ~threw /\ persist]
     /\ fanOps' = fanOps + 1
     /\ UNCHANGED << fanSubscribers, fanThrows, storeVars, cmpVars, eqVars, usVars,
                  laterVars >>

\* The debounce timer fires (lines 92-94).
FanTimerFire ==
  /\ fanDebounce # Null
  /\ fanQueue' = Append(fanQueue, fanDebounce)
  /\ fanDebounce' = Null
  /\ fanEv' = [NoFan EXCEPT !.op = "timerFire", !.val = fanDebounce]
  /\ UNCHANGED << fanSubscribers, fanThrows, fanCurrentValue, fanOps,
                  storeVars, cmpVars, eqVars, usVars,
                  laterVars >>

InitFan ==
  /\ StoreInit /\ storage = Null /\ CmpIdle /\ FanIdle /\ EqIdle /\ UsIdle
  /\ LaterIdle

NextFan ==
  \/ \E cb \in Callbacks, throws \in BOOLEAN : FanSubscribe(cb, throws)
  \/ \E v \in Values, persist \in BOOLEAN, debounce \in BOOLEAN :
       FanSet(v, persist, debounce)
  \/ FanTimerFire

SpecFan == InitFan /\ [][NextFan]_vars

\* ------------- HybridSignal and IndexedDBHybridSignal given the same calls
\* Each has its own backend; both backends answer alike, so a read result
\* (Null for a miss) and the outcome of a call are inputs common to both.
\* IndexedDBHybridSignal.notify (useIndexedDBHybridSignal.ts lines 51-53):
\* every subscriber is called, there is no isInitialized.
IndexedDBNotify(subs, v) ==
  [c \in Callers |-> IF c \in Range(subs) THEN << v >> ELSE << >>]

\* IndexedDBHybridSignal.subscribe (lines 66-77): the new callback is called
\* if currentValue !== undefined, which holds for the values modelled.
IndexedDBSubscribeCalls(c, v) ==
  [d \in Callers |-> IF d = c THEN << v >> ELSE << >>]

\* IndexedDBHybridSignal.checkForExternalChanges (line 133): the value read
\* is compared with currentValue.
IndexedDBDiverged(sv, cur) == Stringify(sv) # Stringify(cur)

\* subscribe(callback) on both.
EqSubscribe(c) ==
  /\ eqOps < MaxEqOps
  /\ c \notin Range(eqSubscribers)
  /\ eqSubscribers' = Append(eqSubscribers, c)
  /\ eqEv' = [NoEq EXCEPT
                !.op = "subscribe",
                !.hybridCalls = SubscribeCalls(c, eqHybrid.isInitialized,
                                               eqHybrid.currentValue),
                !.indexedDBCalls = IndexedDBSubscribeCalls(c, eqIndexedDB.currentValue)]
  /\ eqOps' = eqOps + 1
  /\ UNCHANGED << eqHybrid, eqIndexedDB, eqLoading, eqWrites, storeVars,
                  cmpVars, fanVars, usVars,
                  laterVars >>

\* set(v, {persist, debounce: false}) on both (lines 78-99 / 80-101).
EqSet(v, persist) ==
  /\ eqOps < MaxEqOps
  /\ eqHybrid' = [eqHybrid EXCEPT !.currentValue = SetValue(@, v)]
  /\ eqIndexedDB' = [eqIndexedDB EXCEPT !.currentValue = v]
  /\ eqWrites' = IF persist THEN Append(eqWrites, v) ELSE eqWrites
  /\ eqEv' = [NoEq EXCEPT
                !.op = "set",
                !.hybridCalls = Notify(eqHybrid.isInitialized, eqSubscribers, v),
                !.indexedDBCalls = IndexedDBNotify(eqSubscribers, v)]
  /\ eqOps' = eqOps + 1
  /\ UNCHANGED << eqSubscribers, eqLoading, storeVars, cmpVars, fanVars, usVars,
                  laterVars >>

\* load after getItem on both (lines 33-47 / 38-49); res is what getItem
\* returned.
EqLoadDone(res, ok) ==
  /\ eqLoading
  /\ ~ok => res = Null
  /\ LET nv == LoadedValue(eqHybrid.currentValue, res, ok)
     IN /\ eqHybrid' = [currentValue |-> nv, isInitialized |-> TRUE,
                        lastStorageValue |->
                          IF ok THEN OrDefault(res) ELSE eqHybrid.lastStorageValue]
        /\ eqIndexedDB' = [currentValue |-> nv]
        /\ eqEv' = [NoEq EXCEPT
                      !.op = "loadDone",
                      !.hybridCalls = Notify(TRUE, eqSubscribers, nv),
                      !.indexedDBCalls = IndexedDBNotify(eqSubscribers, nv)]
  /\ eqLoading' = FALSE
  /\ UNCHANGED << eqSubscribers, eqWrites, eqOps, storeVars, cmpVars, fanVars, usVars,
                  laterVars >>

\* persistToStorage after setItem / setItemRaw on both (lines 55-62 / 55-64).
EqPersistDone(ok) ==
  /\ ~eqLoading
  /\ eqWrites # << >>
  /\ eqHybrid' = [eqHybrid EXCEPT
                    !.lastStorageValue = PersistedLast(@, Head(eqWrites), ok)]
  /\ eqWrites' = Tail(eqWrites)
  /\ eqEv' = [NoEq EXCEPT !.op = "persistDone", !.hybridRet = ok,
                          !.indexedDBRet = ok]
  /\ UNCHANGED << eqIndexedDB, eqSubscribers, eqLoading, eqOps, storeVars,
                  cmpVars, fanVars, usVars,
                  laterVars >>

\* checkForExternalChanges on both (lines 126-142 / 128-143), from the call
\* to its result; res is what getItem returned.
EqCheck(res, ok) ==
  /\ eqOps < MaxEqOps
  /\ ~eqLoading
  /\ eqWrites = << >>
  /\ ~ok => res = Null
  /\ LET sv == OrDefault(res)
         hybridChanged == CheckResult(ok, Diverged(sv, eqHybrid.lastStorageValue,
                                                   eqHybrid.currentValue))
         indexedDBChanged == ok /\ IndexedDBDiverged(sv, eqIndexedDB.currentValue)
     IN /\ eqHybrid' = IF hybridChanged
                       THEN [eqHybrid EXCEPT !.currentValue = sv,
                                             !.lastStorageValue = sv]
                       ELSE eqHybrid
        /\ eqIndexedDB' = IF indexedDBChanged THEN [currentValue |-> sv]
                          ELSE eqIndexedDB
        /\ eqEv' = [op |-> "check",
                    hybridCalls |-> IF hybridChanged
                                    THEN Notify(eqHybrid.isInitialized,
                                                eqSubscribers, sv)
                                    ELSE NoCalls,
                    indexedDBCalls |-> IF indexedDBChanged
                                       THEN IndexedDBNotify(eqSubscribers, sv)
                                       ELSE NoCalls,
                    hybridRet |-> hybridChanged,
                    indexedDBRet |-> indexedDBChanged]
  /\ eqOps' = eqOps + 1
  /\ UNCHANGED << eqSubscribers, eqLoading, eqWrites, storeVars, cmpVars,
                  fanVars, usVars,
                  laterVars >>

InitEq ==
  /\ StoreInit /\ storage = Null /\ CmpIdle /\ FanIdle /\ EqIdle /\ UsIdle
  /\ LaterIdle

NextEq ==
  \/ \E c \in Callers : EqSubscribe(c)
  \/ \E v \in Values, persist \in BOOLEAN : EqSet(v, persist)
  \/ \E res \in Values \cup {Null}, ok \in BOOLEAN : EqLoadDone(res, ok)
  \/ \E ok \in BOOLEAN : EqPersistDone(ok)
  \/ \E res \in Values \cup {Null}, ok \in BOOLEAN : EqCheck(res, ok)

SpecEq == InitEq /\ [][NextEq]_vars

\* ---------------------- components of useUnstorage and useIndexedDBStorage
\* Components render one of the two hooks on one key of one storage, all
\* with the same options; subscribe, pollInterval and autoLoad are left at
\* their defaults.
UsHooks == {"useUnstorage", "useIndexedDBStorage"}
UsDefaults ==
  {JsUndefined, JsNumber(0), JsNumber(1), JsString(""), JsBoolean(FALSE)}
UsValues == {JsNumber(0), JsNumber(1)}

\* defaultValue || null (part_003 lines 128, 153, 197; useUnstorage.ts lines
\* 18, 29, 62, 270, 297, 342).
OrNull(d) == IF Truthy(d) THEN d ELSE JsNull

\* fallbackToDefault ? (defaultValue || null) : null
Fallback(o) == IF o.fallbackToDefault THEN OrNull(o.defaultValue) ELSE JsNull

\* The value loadValue shows for what getItem returned.
Loaded(result, o) == IF result # JsNull THEN result ELSE Fallback(o)

\* The subscription effect: useIndexedDBStorage subscribes its loadValue
\* (useUnstorage.ts lines 406-414); in useUnstorage the call is commented out
\* (part_003 lines 261-270).
Subscribes(hook) == hook = "useIndexedDBStorage"

\* JSON.stringify of a value; of undefined it gives undefined, no text, for
\* which the empty text stands here.
UsStringify(v) ==
  CASE v.t = "number" -> ToText(v.n)
    [] v.t = "string" -> "\"" \o v.s \o "\""
    [] v.t = "boolean" -> IF v.b THEN "true" ELSE "false"
    [] v.t = "null" -> "null"
    [] OTHER -> ""

\* A storage call issued by a hook function of component c (0: the manager).
UsCall(kind, c, arg) ==
  [kind |-> kind, c |-> c, arg |-> arg, st |-> "issued", res |-> JsNull]

InSubs(c, subs) == \E n \in 1..Len(subs) : subs[n] = c

\* notifySubscribers (useUnstorage.ts lines 226-237): every subscribed
\* loadValue runs up to its getItem, in subscription order.
Loads(subs) == [n \in 1..Len(subs) |-> UsCall("loadValue", subs[n], JsNull)]

\* A component renders the hook: useState with defaultValue || null, the
\* subscription effect, then the auto-load effect calling loadValue.
UsMount(c) ==
  /\ usMounted[c] = "no"
  /\ IF c = 1 THEN TRUE ELSE usMounted[c - 1] # "no"
  /\ usOps < MaxUsOps
  /\ usMounted' = [usMounted EXCEPT ![c] = "yes"]
  /\ usValue' = [usValue EXCEPT ![c] = OrNull(usOptions.defaultValue)]
  /\ usLoading' = [usLoading EXCEPT ![c] = TRUE]
  /\ usError' = [usError EXCEPT ![c] = FALSE]
  /\ subscriptions' = IF Subscribes(usHook) THEN Append(subscriptions, c)
                      ELSE subscriptions
  /\ pollIntervals' = (pollIntervals \/ Subscribes(usHook))
  /\ usQueue' = Append(usQueue, UsCall("loadValue", c, JsNull))
  /\ usEv' = NoUs
  /\ usOps' = usOps + 1
  /\ UNCHANGED << usHook, usOptions, usStorage, lastValues, usWritten, usFail,
                  storeVars, cmpVars, fanVars, eqVars,
                  laterVars >>

\* The component unmounts: the cleanup of the subscription effect calls the
\* unsubscribe function (useUnstorage.ts lines 180-190, 416-421), which stops
\* the polling with the last subscriber.
UsUnmount(c) ==
  /\ usMounted[c] = "yes"
  /\ usOps < MaxUsOps
  /\ usMounted' = [usMounted EXCEPT ![c] = "gone"]
  /\ subscriptions' = Without(subscriptions, c)
  /\ pollIntervals' = (pollIntervals /\ Without(subscriptions, c) # << >>)
  /\ usEv' = NoUs
  /\ usOps' = usOps + 1
  /\ UNCHANGED << usHook, usOptions, usStorage, usQueue, usValue, usLoading,
                  usError, lastValues, usWritten, usFail,
                  storeVars, cmpVars, fanVars, eqVars,
                  laterVars >>

\* setValue(v) and removeValue() up to their await: setLoading(true),
\* setError(null), the storage call.
UsIssue(c, kind, arg) ==
  /\ usMounted[c] = "yes"
  /\ usOps < MaxUsOps
  /\ usLoading' = [usLoading EXCEPT ![c] = TRUE]
  /\ usError' = [usError EXCEPT ![c] = FALSE]
  /\ usQueue' = Append(usQueue, UsCall(kind, c, arg))
  /\ usEv' = NoUs
  /\ usOps' = usOps + 1
  /\ UNCHANGED << usHook, usOptions, usStorage, usValue, usMounted,
                  subscriptions, pollIntervals, lastValues, usWritten, usFail,
                  storeVars, cmpVars, fanVars, eqVars,
                  laterVars >>

UsSetValue(c, v) == UsIssue(c, "setValue", v)

UsRemoveValue(c) == UsIssue(c, "removeValue", JsNull)

\* A tick of the manager's polling timer: checkForChanges up to its getItem
\* (useUnstorage.ts lines 193-198, 208-213).
UsPollTick ==
  /\ pollIntervals
  /\ usOps < MaxUsOps
  /\ usQueue' = Append(usQueue, UsCall("checkForChanges", 0, JsNull))
  /\ usEv' = NoUs
  /\ usOps' = usOps + 1
  /\ UNCHANGED << usHook, usOptions, usStorage, usValue, usLoading, usError,
                  usMounted, subscriptions, pollIntervals, lastValues,
                  usWritten, usFail, storeVars, cmpVars, fanVars, eqVars,
                  laterVars >>

\* Another tab writes or deletes the entry.
UsExternalWrite(v) ==
  /\ v # usStorage
  /\ usOps < MaxUsOps
  /\ usStorage' = v
  /\ usWritten' = NoWrite
  /\ usEv' = NoUs
  /\ usOps' = usOps + 1
  /\ UNCHANGED << usHook, usOptions, usQueue, usValue, usLoading, usError,
                  usMounted, subscriptions, pollIntervals, lastValues, usFail,
                  storeVars, cmpVars, fanVars, eqVars,
                  laterVars >>

\* The storage serves the oldest call: getItem, setItem or removeItem.
UsBackendExec(ok) ==
  /\ usQueue # << >>
  /\ Head(usQueue).st = "issued"
  /\ ok \/ usFail < MaxUsFail
  /\ LET call == Head(usQueue)
         reads == call.kind \in {"loadValue", "checkForChanges"}
     IN /\ usStorage' = CASE ok /\ call.kind = "setValue" -> call.arg
                          [] ok /\ call.kind = "removeValue" -> JsNull
                          [] OTHER -> usStorage
        /\ usQueue' = << [call EXCEPT
                            !.st = IF ok THEN "ok" ELSE "err",
                            !.res = IF ok /\ reads THEN usStorage
                                    ELSE JsNull] >> \o Tail(usQueue)
  /\ usFail' = IF ok THEN usFail ELSE usFail + 1
  /\ usEv' = NoUs
  /\ UNCHANGED << usHook, usOptions, usValue, usLoading, usError, usMounted,
                  subscriptions, pollIntervals, lastValues, usWritten, usOps,
                  storeVars, cmpVars, fanVars, eqVars,
                  laterVars >>

\* The rest of the function that awaited the served call: loadValue
\* (part_003 lines 153-166, useUnstorage.ts lines 297-310), setValueAsync
\* (175-188, 320-333), removeValue (197-211, 342-356), checkForChanges
\* (useUnstorage.ts lines 214-223).  State updates of a component that has
\* unmounted are dropped; the calls on the subscription manager are made.
UsSettle ==
  /\ usQueue # << >>
  /\ Head(usQueue).st # "issued"
  /\ LET call == Head(usQueue)
         c == call.c
         ok == call.st = "ok"
         poll == call.kind = "checkForChanges"
         write == call.kind \in {"setValue", "removeValue"}
         live == ~poll /\ usMounted[c] = "yes"
         shown == CASE call.kind = "loadValue" -> Loaded(call.res, usOptions)
                    [] call.kind = "setValue" -> call.arg
                    [] OTHER -> Fallback(usOptions)
         known == CASE call.kind = "setValue" -> call.arg
                    [] call.kind = "removeValue" -> JsNull
                    [] OTHER -> call.res
         changed == UsStringify(call.res) # UsStringify(lastValues)
         subs == IF ok /\ (write \/ (poll /\ changed)) THEN subscriptions
                 ELSE << >>
     IN /\ usQueue' = Tail(usQueue) \o Loads(subs)
        /\ usValue' = IF ok /\ live THEN [usValue EXCEPT ![c] = shown]
                      ELSE usValue
        /\ lastValues' = IF ok /\ (~poll \/ changed) THEN known
                         ELSE lastValues
        /\ usLoading' = [d \in Components |->
                           IF live /\ d = c THEN FALSE
                           ELSE IF InSubs(d, subs) THEN TRUE
                           ELSE usLoading[d]]
        /\ usError' = [d \in Components |->
                         IF live /\ d = c /\ ~ok THEN TRUE
                         ELSE IF InSubs(d, subs) THEN FALSE
                         ELSE usError[d]]
        /\ usEv' = [op |-> call.kind, c |-> c, ok |-> ok,
                    absent |-> (call.kind = "loadValue" /\ call.res = JsNull)]
        /\ usWritten' = IF ok /\ write THEN c ELSE usWritten
  /\ UNCHANGED << usHook, usOptions, usStorage, usMounted, subscriptions,
                  pollIntervals, usOps, usFail,
                  storeVars, cmpVars, fanVars, eqVars,
                  laterVars >>

InitUs ==
  /\ StoreInit /\ storage = Null /\ CmpIdle /\ FanIdle /\ EqIdle /\ LaterIdle
  /\ \E hook \in UsHooks :
       \E o \in [defaultValue : UsDefaults, fallbackToDefault : BOOLEAN] :
         UsStart(hook, o)

NextUs ==
  \/ \E c \in Components : UsMount(c)
  \/ \E c \in Components : UsUnmount(c)
  \/ \E c \in Components : \E v \in UsValues : UsSetValue(c, v)
  \/ \E c \in Components : UsRemoveValue(c)
  \/ UsPollTick
  \/ \E v \in UsValues \cup {JsNull} : UsExternalWrite(v)
  \/ \E ok \in BOOLEAN : UsBackendExec(ok)
  \/ UsSettle

\* The storage answers every call and every continuation runs.
SpecUs ==
  /\ InitUs
  /\ [][NextUs]_vars
  /\ WF_vars(\E ok \in BOOLEAN : UsBackendExec(ok))
  /\ WF_vars(UsSettle)

\* ------------------------------- the options of the hook-level set
\* One caller of useHybridSignal with its immediate and debounceMs options,
\* calling the set the hook returns on a loaded store.
HookOptions == [immediate : BOOLEAN, debounceMs : {0, 100}]

\* The second argument of the hook's set: persist and debounce, each given
\* or left out.
CallOptions == UNION {[D -> BOOLEAN] : D \in SUBSET {"persist", "debounce"}}

\* defaultOptions (lines 227-230).
DefaultOptions(h) == [persist |-> h.immediate, debounce |-> h.debounceMs > 0]

\* finalOptions = { ...defaultOptions, ...options } (line 231).
FinalOptions(h, o) ==
  [n \in {"persist", "debounce"} |->
     IF n \in DOMAIN o THEN o[n] ELSE DefaultOptions(h)[n]]

\* The hook's set (lines 225-239) calling HybridSignal.set (lines 78-99)
\* with finalOptions: memory is written; a persisting call arms the debounce
\* timer, clearing an armed one, or starts the write at once.
HookSet(v, o) ==
  LET final == FinalOptions(hsOptions, o)
  IN /\ hsOps < MaxHsOps
     /\ hsCurrentValue' = v
     /\ hsDebounce' = IF final.persist /\ final.debounce THEN v ELSE hsDebounce
     /\ hsWrites' = IF final.persist /\ ~final.debounce THEN Append(hsWrites, v)
                    ELSE hsWrites
     /\ hsLast' = [op |-> "set", val |-> v, options |-> o]
     /\ hsOps' = hsOps + 1
     /\ UNCHANGED << hsOptions, hsStorage, storeVars, cmpVars, fanVars, eqVars,
                     usVars, sgVars,
                  ckVars >>

\* The debounce timer fires (lines 92-94): persistToStorage(value).
HsTimerFire ==
  /\ hsDebounce # Null
  /\ hsWrites' = Append(hsWrites, hsDebounce)
  /\ hsDebounce' = Null
  /\ UNCHANGED << hsOptions, hsCurrentValue, hsStorage, hsLast, hsOps,
                  storeVars, cmpVars, fanVars, eqVars, usVars, sgVars,
                  ckVars >>

\* The storage completes the oldest setItem (lines 55-58).
HsPersistDone ==
  /\ hsWrites # << >>
  /\ hsStorage' = Head(hsWrites)
  /\ hsWrites' = Tail(hsWrites)
  /\ UNCHANGED << hsOptions, hsCurrentValue, hsDebounce, hsLast, hsOps,
                  storeVars, cmpVars, fanVars, eqVars, usVars, sgVars,
                  ckVars >>

InitSet ==
  /\ StoreInit /\ storage = Null /\ CmpIdle /\ FanIdle /\ EqIdle /\ UsIdle
  /\ SgIdle /\ CkIdle
  /\ \E o \in HookOptions : HsStart(o)

NextSet ==
  \/ \E v \in Values, o \in CallOptions : HookSet(v, o)
  \/ HsTimerFire
  \/ HsPersistDone

SpecSet == InitSet /\ [][NextSet]_vars

\* ----------------------------- the storage-first signals
\* One StorageSignal (useUnstorage.signals.ts lines 5-76); IndexedDBSignal
\* (part_000 lines 5-78) has the same methods statement for statement.
SgValues == 0..MaxSgVal

\* The updater the callers pass to update: one more.
SgUpdater(v) == v + 1

\* currentValue after set's await (lines 46-51): the value on success, the
\* old one when setItem rejected.
\* (variant: memory takes the value also when the write failed)
MutSetKeepsFailedValue(cur, v, ok) == v
SetValueAfter(cur, v, ok) == IF ok THEN v ELSE cur

\* The subscribers set's notify() calls (lines 48, 30-32): all, after a
\* write that succeeded.
SetNotified(subs, ok) == IF ok THEN subs ELSE << >>

\* set's try/catch (lines 45-51) lets no rejection out.
SetRejects(ok) == FALSE

\* subscribe (lines 34-42): the callback is added and called at once.
SgSubscribe(c) ==
  /\ sgOps < MaxSgOps
  /\ c \notin Range(sgSubscribers)
  /\ sgSubscribers' = Append(sgSubscribers, c)
  /\ sgEv' = [NoSg EXCEPT !.op = "subscribe", !.val = sgCurrentValue,
                          !.prior = sgCurrentValue, !.called = << c >>]
  /\ sgOps' = sgOps + 1
  /\ UNCHANGED << sgCurrentValue, sgStorage, sgQueue, sgBatch, sgFail,
                  storeVars, cmpVars, fanVars, eqVars, usVars, hsVars,
                  ckVars >>

\* set(value) up to its await (lines 44-46): setItem is called, nothing
\* else is touched.
SgIssue(op, v, batch) ==
  /\ sgOps < MaxSgOps
  /\ v \in SgValues
  /\ sgQueue' = Append(sgQueue, SgCall("set", v))
  /\ sgEv' = [NoSg EXCEPT !.op = op, !.val = v, !.prior = sgCurrentValue]
  /\ sgBatch' = batch
  /\ sgOps' = sgOps + 1
  /\ UNCHANGED << sgCurrentValue, sgSubscribers, sgStorage, sgFail,
                  storeVars, cmpVars, fanVars, eqVars, usVars, hsVars,
                  ckVars >>

SgSet(v) == SgIssue("set", v, NoBatch)

\* update(updater) (lines 54-57): updater(currentValue) is computed at the
\* call, then set awaits the write.  The batch counts the updates issued
\* from a loaded signal with nothing else in flight.
SgUpdate ==
  SgIssue("update", SgUpdater(sgCurrentValue),
          IF sgBatch.k > 0
          THEN [sgBatch EXCEPT !.k = @ + 1]
          ELSE [start |-> sgCurrentValue, k |-> 1, clean |-> sgQueue = << >>])

\* The storage serves the oldest call.
SgBackendExec(ok) ==
  /\ sgQueue # << >>
  /\ Head(sgQueue).st = "issued"
  /\ ok \/ sgFail < MaxSgFail
  /\ LET call == Head(sgQueue)
     IN /\ sgStorage' = IF ok /\ call.kind = "set" THEN call.val ELSE sgStorage
        /\ sgQueue' = << [call EXCEPT
                            !.st = IF ok THEN "ok" ELSE "err",
                            !.res = IF ok /\ call.kind = "load" THEN sgStorage
                                    ELSE Null] >> \o Tail(sgQueue)
  /\ sgFail' = IF ok THEN sgFail ELSE sgFail + 1
  /\ sgEv' = NoSg
  /\ UNCHANGED << sgCurrentValue, sgSubscribers, sgBatch, sgOps,
                  storeVars, cmpVars, fanVars, eqVars, usVars, hsVars,
                  ckVars >>

\* set after its await (lines 47-51).
SgSetDone ==
  /\ sgQueue # << >>
  /\ Head(sgQueue).kind = "set"
  /\ Head(sgQueue).st # "issued"
  /\ LET call == Head(sgQueue)
         ok == call.st = "ok"
     IN /\ sgCurrentValue' = SetValueAfter(sgCurrentValue, call.val, ok)
        /\ sgEv' = [op |-> "setDone", val |-> call.val, ok |-> ok,
                    prior |-> sgCurrentValue,
                    called |-> SetNotified(sgSubscribers, ok),
                    rejected |-> SetRejects(ok)]
        /\ sgBatch' = [sgBatch EXCEPT !.clean = @ /\ ok]
  /\ sgQueue' = Tail(sgQueue)
  /\ UNCHANGED << sgSubscribers, sgStorage, sgOps, sgFail,
                  storeVars, cmpVars, fanVars, eqVars, usVars, hsVars,
                  ckVars >>

\* load after its await (lines 23-27): the entry or defaultValue, notified;
\* nothing when getItem rejected.
SgLoadDone ==
  /\ sgQueue # << >>
  /\ Head(sgQueue).kind = "load"
  /\ Head(sgQueue).st # "issued"
  /\ LET call == Head(sgQueue)
         ok == call.st = "ok"
     IN /\ sgCurrentValue' = IF ok THEN OrDefault(call.res) ELSE sgCurrentValue
        /\ sgEv' = [NoSg EXCEPT !.op = "loadDone", !.ok = ok,
                                !.prior = sgCurrentValue,
                                !.called = IF ok THEN sgSubscribers ELSE << >>]
  /\ sgQueue' = Tail(sgQueue)
  /\ UNCHANGED << sgSubscribers, sgStorage, sgBatch, sgOps, sgFail,
                  storeVars, cmpVars, fanVars, eqVars, usVars, hsVars,
                  ckVars >>

InitSig ==
  /\ StoreInit /\ storage = Null /\ CmpIdle /\ FanIdle /\ EqIdle /\ UsIdle
  /\ HsIdle /\ CkIdle
  /\ \E entry \in {Null, 0, 1} : SgStart(entry)

NextSig ==
  \/ \E c \in Callers : SgSubscribe(c)
  \/ \E v \in Values : SgSet(v)
  \/ SgUpdate
  \/ \E ok \in BOOLEAN : SgBackendExec(ok)
  \/ SgSetDone
  \/ SgLoadDone

SpecSig == InitSig /\ [][NextSig]_vars

\* The stores when every local write persists: set and update with
\* persist: true (debounced or not), setAsync and updateAsync, besides
\* attach, detach, remove, the checks, the timers and the external writer.
NextPersisting ==
  \/ \E c \in Callers : Attach(c, TRUE, DefaultPollInterval)
  \/ \E c \in Callers : Detach(c)
  \/ \E c \in Callers, v \in Values, debounce \in BOOLEAN :
       Set(c, v, TRUE, debounce)
  \/ \E c \in Callers, debounce \in BOOLEAN : Update(c, TRUE, debounce)
  \/ \E c \in Callers, v \in Values : SetAsync(c, v)
  \/ \E c \in Callers : UpdateAsync(c)
  \/ \E c \in Callers : Remove(c)
  \/ \E c \in Callers : CheckForChanges(c)
  \/ \E t \in intervals : PollTick(t)
  \/ \E t \in timeouts : TimerFire(t)
  \/ \E ok \in BOOLEAN : BackendExec(ok)
  \/ \E y \in Values : ExternalWrite(y)
  \/ LoadDone
  \/ PersistDone
  \/ SetAsyncDone
  \/ CheckDone
  \/ RemoveDone

SpecPersisting == Init /\ [][NextPersisting]_vars

\* The stores under checks racing with sets that write at once
\* (persist: true, debounce: false): no timer is ever armed, so a write
\* queued behind a check was issued by a set called while the check awaited.
NextRace ==
  \/ \E c \in Callers : Attach(c, TRUE, DefaultPollInterval)
  \/ \E c \in Callers, v \in Values : Set(c, v, TRUE, FALSE)
  \/ \E c \in Callers : CheckForChanges(c)
  \/ \E t \in intervals : PollTick(t)
  \/ \E ok \in BOOLEAN : BackendExec(ok)
  \/ \E y \in Values : ExternalWrite(y)
  \/ LoadDone
  \/ PersistDone
  \/ CheckDone

SpecRace == Init /\ [][NextRace]_vars

\* --------------------------------------------------- the cookie driver
\* Texts are sequences of characters.  The values given to setItem are
\* null, booleans, one-digit numbers and a few strings, among them the empty
\* one, one with a space and some that are JSON texts themselves.
JsText(chars) == [t |-> "string", s |-> chars]

CkTexts ==
  {<< >>, << "a" >>, << "a", " ", "a" >>, << "1" >>,
   << "t", "r", "u", "e" >>, << "n", "u", "l", "l" >>, << "\"", "a", "\"" >>}

CkValues ==
  {JsNull, JsBoolean(TRUE), JsBoolean(FALSE), JsNumber(0), JsNumber(1)}
    \cup {JsText(x) : x \in CkTexts}

\* JSON.stringify of a value that is not a string (line 99).
CkStringify(v) ==
  CASE v.t = "number" -> << ToText(v.n) >>
    [] v.t = "boolean" -> IF v.b THEN << "t", "r", "u", "e" >>
                          ELSE << "f", "a", "l", "s", "e" >>
    [] OTHER -> << "n", "u", "l", "l" >>

\* encodeURIComponent (line 52), on the characters used here.
EncodeChar(ch) ==
  CASE ch = " " -> << "%", "2", "0" >>
    [] ch = "\"" -> << "%", "2", "2" >>
    [] ch = "%" -> << "%", "2", "5" >>
    [] OTHER -> << ch >>

RECURSIVE EncodeURIComponent(_)
EncodeURIComponent(x) ==
  IF x = << >> THEN << >>
  ELSE EncodeChar(Head(x)) \o EncodeURIComponent(Tail(x))

\* decodeURIComponent (line 85) of a text made by encodeURIComponent.
DecodeEscape(hi, lo) ==
  CASE hi = "2" /\ lo = "0" -> " "
    [] hi = "2" /\ lo = "2" -> "\""
    [] OTHER -> "%"

RECURSIVE DecodeURIComponent(_)
DecodeURIComponent(x) ==
  IF x = << >> THEN << >>
  ELSE IF Head(x) = "%" /\ Len(x) >= 3
       THEN << DecodeEscape(x[2], x[3]) >> \o
            DecodeURIComponent(SubSeq(x, 4, Len(x)))
       ELSE << Head(x) >> \o DecodeURIComponent(Tail(x))

\* A text without the white space around it, as JSON.parse reads it.
RECURSIVE TrimLeft(_)
TrimLeft(x) ==
  IF x # << >> /\ Head(x) = " " THEN TrimLeft(Tail(x)) ELSE x

RECURSIVE TrimRight(_)
TrimRight(x) ==
  IF x # << >> /\ x[Len(x)] = " " THEN TrimRight(SubSeq(x, 1, Len(x) - 1))
  ELSE x

DigitOf(ch) == CHOOSE n \in 0..3 : Digits[n + 1] = ch

\* JSON.parse (line 85): the value of a JSON text of a primitive, or a
\* SyntaxError.
JsonParse(x) ==
  LET y == TrimRight(TrimLeft(x))
  IN CASE y = << "n", "u", "l", "l" >> -> [ok |-> TRUE, val |-> JsNull]
       [] y = << "t", "r", "u", "e" >> -> [ok |-> TRUE, val |-> JsBoolean(TRUE)]
       [] y = << "f", "a", "l", "s", "e" >> ->
            [ok |-> TRUE, val |-> JsBoolean(FALSE)]
       [] Len(y) = 1 /\ y[1] \in Range(Digits) ->
            [ok |-> TRUE, val |-> JsNumber(DigitOf(y[1]))]
       [] /\ Len(y) >= 2 /\ y[1] = "\"" /\ y[Len(y)] = "\""
          /\ \A n \in 2..(Len(y) - 1) : y[n] # "\"" ->
            [ok |-> TRUE, val |-> JsText(SubSeq(y, 2, Len(y) - 1))]
       [] OTHER -> [ok |-> FALSE, val |-> JsNull]

\* getCookie (lines 42-49): the text of the cookie of the name, or null when
\* there is none or when the text is empty (`|| null`).
GetCookie(jar, key) ==
  IF jar[key].set /\ jar[key].text # << >> THEN JsText(jar[key].text)
  ELSE JsNull

\* The text setItem hands to setCookie (lines 97-99).
StringValue(v) == IF v.t = "string" THEN v.s ELSE CkStringify(v)

\* getItem's result (lines 82-88).
GotItem(jar, key) ==
  LET cookie == GetCookie(jar, key)
      parsed == JsonParse(DecodeURIComponent(cookie.s))
  IN IF cookie = JsNull THEN JsNull
     ELSE IF parsed.ok THEN parsed.val
     ELSE cookie

\* setItem (lines 96-107) and setCookie (lines 51-66) with the default
\* maxAge of seven days: the cookie is stored.
CkSetItem(key, v) ==
  /\ ckCookie' = [ckCookie EXCEPT
                    ![key] = [set |-> TRUE,
                              text |-> EncodeURIComponent(StringValue(v))]]
  /\ ckSet' = [ckSet EXCEPT ![key] = v]
  /\ ckEv' = [op |-> "setItem", key |-> key, ret |-> JsNull]
  /\ UNCHANGED << storeVars, cmpVars, fanVars, eqVars, usVars, hsVars,
                  sgVars >>

\* getItem (lines 81-89).
CkGetItem(key) ==
  /\ ckEv' = [op |-> "getItem", key |-> key, ret |-> GotItem(ckCookie, key)]
  /\ UNCHANGED << ckCookie, ckSet, storeVars, cmpVars, fanVars, eqVars,
                  usVars, hsVars, sgVars >>

\* hasItem (lines 76-79).
CkHasItem(key) ==
  /\ ckEv' = [op |-> "hasItem", key |-> key,
              ret |-> JsBoolean(GetCookie(ckCookie, key) # JsNull)]
  /\ UNCHANGED << ckCookie, ckSet, storeVars, cmpVars, fanVars, eqVars,
                  usVars, hsVars, sgVars >>

InitCookie ==
  /\ StoreInit /\ storage = Null /\ CmpIdle /\ FanIdle /\ EqIdle /\ UsIdle
  /\ HsIdle /\ SgIdle /\ CkIdle

NextCookie ==
  \/ \E key \in CkKeys, v \in CkValues : CkSetItem(key, v)
  \/ \E key \in CkKeys : CkGetItem(key)
  \/ \E key \in CkKeys : CkHasItem(key)

SpecCookie == InitCookie /\ [][NextCookie]_vars

\* ================================================================== claims
TimersOf(i) == {t \in timeouts : t.sig = i}

Subs(i) == Range(subscribers[i])

LastOf(s) == s[Len(s)]

\* C1 (coalescing): while debounced sets have been made on a store since its
\* last timer firing, exactly one debounce timer is pending for it and it
\* carries the value of the last of those sets (no timer is pending
\* otherwise); when the timer fires it issues exactly one backend write, with
\* that last value, so no intermediate value is ever written.
C1_Coalescing ==
  /\ \A i \in Inst :
       IF window[i] = << >> THEN TimersOf(i) = {}
       ELSE \E t \in timeouts :
              /\ TimersOf(i) = {t}
              /\ t.value = LastOf(window[i])
              /\ t.id = debounceTimeout[i]
  /\ ev.op = "timerFire" =>
       /\ ev.win # << >>
       /\ ev.val = LastOf(ev.win)
       /\ queue # << >>
       /\ LastOf(queue) = Call("persist", ev.sig, LastOf(ev.win))
       /\ TimersOf(ev.sig) = {}

\* C1 witness: a timer fires after two debounced sets of different values.
C1_Witness ==
  /\ ev.op = "timerFire"
  /\ Len(ev.win) >= 2
  /\ ev.win[1] # ev.win[2]

\* C2 as amended: when set returns, currentValue is the value set, and every
\* subscribed callback was invoked exactly once with it if the store is
\* initialized; while the initial load is pending no callback is invoked.
C2_SetOverwritesNotifiesWhenReady ==
  ev.op = "set" =>
    /\ currentValue[ev.sig] = ev.val
    /\ \A c \in Callers :
         ev.calls[c] = IF isInitialized[ev.sig] /\ c \in Subs(ev.sig)
                       THEN << ev.val >> ELSE << >>

\* C2 witness: a set on an initialized store with two subscribers.
C2_Witness ==
  /\ ev.op = "set"
  /\ isInitialized[ev.sig]
  /\ Len(subscribers[ev.sig]) = 2
  /\ ev.val # DefaultValue

\* C2 as stated: in any store state, set has overwritten currentValue and
\* invoked every subscribed callback with the value.
C2_SetNotifiesInAnyState ==
  ev.op = "set" =>
    /\ currentValue[ev.sig] = ev.val
    /\ \A c \in Subs(ev.sig) : ev.calls[c] = << ev.val >>

\* C3 as amended: subscribe invokes the callback exactly once with the
\* current value before it returns when the store is initialized, and does
\* not invoke it while the initial load is pending.
C3_SubscribeCallsOnceWhenReady ==
  ev.op = "attach" =>
    ev.calls[ev.caller] = IF isInitialized[ev.sig]
                          THEN << currentValue[ev.sig] >> ELSE << >>

\* C3 witness: a subscribe on an initialized store holding a non-default value.
C3_Witness ==
  /\ ev.op = "attach"
  /\ isInitialized[ev.sig]
  /\ currentValue[ev.sig] # DefaultValue
  /\ value[ev.caller] = currentValue[ev.sig]

\* C3 as stated: subscribe invokes the callback exactly once with the current
\* value in every store state.
C3_SubscribeCallsOnceInAnyState ==
  ev.op = "attach" => ev.calls[ev.caller] = << currentValue[ev.sig] >>

\* The conclusion of C4 after the first and after the second check.
C4_Detected ==
  /\ chain.stage = 4 =>
       /\ ev.ret
       /\ currentValue[chain.sig] = chain.y
       /\ lastStorageValue[chain.sig] = chain.y
       /\ \A c \in Callers :
            ev.calls[c] = IF c \in Subs(chain.sig) THEN << chain.y >> ELSE << >>
  /\ chain.stage = 7 =>
       /\ ~ev.ret
       /\ ev.calls = NoCalls
       /\ currentValue[chain.sig] = chain.cur
       /\ lastStorageValue[chain.sig] = chain.last

\* C4 as amended: in an initialized store, if an external writer sets the
\* backend value to y, y differs (as JSON text) from the store's
\* lastStorageValue, and checkForExternalChanges then runs with nothing
\* interleaved, it sets currentValue to y, notifies the subscribers and
\* returns true; an immediately following check returns false and changes
\* nothing.
C4_ExternalWriteDetectedWhenNew == chain.fresh => C4_Detected

\* C4 witness: both checks have run after an external write of a new value
\* to a store that has subscribers.
C4_Witness ==
  /\ chain.stage = 7
  /\ chain.fresh
  /\ Subs(chain.sig) # {}

\* C4 as stated: in any initialized store state the external write is
\* detected by the check that follows it.
C4_ExternalWriteDetected == chain.stage \in {4, 7} => C4_Detected

\* C5 as stated: setAsync cancels the pending debounce timer of the store, so
\* a timer armed before a setAsync never fires and never writes its value.
C5_SetAsyncCancelsDebounce == ev.op = "timerFire" => ~ev.dirty

C7_SameInstance ==
  \A c \in Callers : mounted[c] => signalRef[c] = hybridSignalRegistry

\* C7 as amended: callers attached at the same time hold the same instance,
\* and a set through one of them is delivered synchronously to the callback
\* of every other one once the store is initialized.
C7_SharedInstanceDeliversWhenReady ==
  /\ C7_SameInstance
  /\ (ev.op = "set" /\ isInitialized[ev.sig]) =>
       \A d \in Callers :
         mounted[d] => ev.calls[d] = << ev.val >> /\ value[d] = ev.val

\* C7 witness: caller 1 sets a value on the initialized store it shares with
\* caller 2, whose state now shows it.
C7_Witness ==
  /\ ev.op = "set"
  /\ ev.caller = 1
  /\ isInitialized[ev.sig]
  /\ mounted[1] /\ mounted[2]
  /\ ev.val # DefaultValue
  /\ value[2] = ev.val

\* C7 as stated: the set is delivered to the other caller in any store state.
C7_SharedInstanceDelivers ==
  /\ C7_SameInstance
  /\ ev.op = "set" =>
       \A d \in Callers :
         mounted[d] => ev.calls[d] = << ev.val >> /\ value[d] = ev.val

\* C8 (eviction): an attach made when no other caller is attached constructs
\* a new instance (not initialized, holding defaultValue, its load issued),
\* and when the load of an instance completes its value is the value read
\* from the backend (defaultValue on a miss or a failed read), whatever an
\* evicted instance held in memory.
C8_EvictionFreshStore ==
  /\ (ev.op = "attach" /\ Cardinality({c \in Callers : mounted[c]}) = 1) =>
       /\ ev.ret
       /\ ~isInitialized[ev.sig]
       /\ currentValue[ev.sig] = DefaultValue
       /\ \E n \in 1..Len(queue) : queue[n] = Call("load", ev.sig, Null)
  /\ ev.op = "loadDone" =>
       currentValue[ev.sig] = IF ev.ret THEN OrDefault(ev.val) ELSE DefaultValue

\* C8 witness: the second instance finishes its load with the backend value
\* while the evicted first instance holds a different value in memory.
C8_Witness ==
  /\ ev.op = "loadDone"
  /\ ev.sig = 2
  /\ ev.ret
  /\ hybridSignalRegistry = 2
  /\ lastLocal[1] # Null
  /\ currentValue[1] # currentValue[2]
  /\ currentValue[2] = OrDefault(storage)

\* An instance that can still write: a pending debounce timer or a write in
\* flight.
AbleToWrite(i) ==
  \/ TimersOf(i) # {}
  \/ \E n \in 1..Len(queue) : queue[n].sig = i /\ IsWrite(queue[n].kind)

\* Live instances: registered, or with a pending timer or a call in flight.
Live ==
  {i \in 1..nInst :
     \/ hybridSignalRegistry = i
     \/ TimersOf(i) # {}
     \/ \E n \in 1..Len(queue) : queue[n].sig = i}

\* C9 as stated: at most one live instance at every moment, and no evicted
\* instance that can still write coexists with a newer instance.
C9_OneLiveStore ==
  /\ Cardinality(Live) <= 1
  /\ \A i \in 1..nInst :
       (hybridSignalRegistry # None /\ hybridSignalRegistry # i) => ~AbleToWrite(i)

\* C10 as stated: after a local write, currentValue equals the value written
\* until the next local write or the next check that returns true.
C10_MemoryKeepsLocalWrite ==
  \A i \in Inst : lastLocal[i] # Null => currentValue[i] = lastLocal[i]

\* C11 (persist failure): the step in which a backend write started by set or
\* update (at once or by the debounce timer) is found to have failed changes
\* neither currentValue nor lastStorageValue nor what any caller shows; the
\* set that started it had already returned.
C11_PersistFailureChangesNothing ==
  [][(ev'.op = "persistDone" /\ ~ev'.ret) =>
       /\ currentValue' = currentValue
       /\ lastStorageValue' = lastStorageValue
       /\ value' = value]_vars

\* C11 witness: a write of the value held in memory has failed; memory still
\* holds it and lastStorageValue does not.
C11_Witness ==
  /\ ev.op = "persistDone"
  /\ ~ev.ret
  /\ currentValue[ev.sig] = ev.val
  /\ lastLocal[ev.sig] = ev.val
  /\ lastStorageValue[ev.sig] # ev.val

\* C12 (error reporting): a step that resumes a failed backend call (the
\* load, a persist, the read of a reconcile, a remove) invokes the caller's
\* onError exactly once.
C12_EveryFailureReported == ev.failed => ev.onError = 1

\* C13 (load completion): when the load of a store completes, whether the
\* read succeeded or failed, the store is initialized, currentValue and
\* lastStorageValue both hold the loaded value (defaultValue on a miss or a
\* failure), and every subscribed callback was invoked exactly once with it.
C13_LoadCompletion ==
  ev.op = "loadDone" =>
    LET i == ev.sig
        loaded == IF ev.failed THEN DefaultValue ELSE OrDefault(ev.val)
    IN /\ isInitialized[i]
       /\ currentValue[i] = loaded
       /\ lastStorageValue[i] = loaded
       /\ \A c \in Callers :
            ev.calls[c] = IF c \in Subs(i) THEN << loaded >> ELSE << >>

\* C14 (remove, successful delete), as the code has it: when remove()
\* completes after a successful backend delete, currentValue is defaultValue,
\* lastStorageValue is the value a miss reads as (defaultValue), every
\* subscriber was notified exactly once with defaultValue, and the backend
\* has no entry for the key unless another write reached the key after the
\* delete took effect.
C14_RemoveResets ==
  (ev.op = "removeDone" /\ ~ev.failed) =>
    LET i == ev.sig
    IN /\ currentValue[i] = DefaultValue
       /\ lastStorageValue[i] = OrDefault(Null)
       /\ \A c \in Callers :
            ev.calls[c] = IF c \in Subs(i) THEN << DefaultValue >> ELSE << >>
       /\ ~ev.dirty => storage = Null

\* C14 witness: a remove has completed after a successful delete that no
\* write overtook; two subscribers were notified and the entry is gone.
C14_Witness ==
  /\ ev.op = "removeDone"
  /\ ~ev.failed
  /\ ~ev.dirty
  /\ Cardinality(Subs(ev.sig)) = 2
  /\ \A c \in Subs(ev.sig) : ev.calls[c] = << DefaultValue >>
  /\ lastLocal[ev.sig] = DefaultValue
  /\ storage = Null

\* C14 as stated: whenever remove() completes after a successful delete, the
\* memory fields are reset, the subscribers notified, and the backend has no
\* entry for the key.
C14_RemoveLeavesNoEntry ==
  (ev.op = "removeDone" /\ ~ev.failed) =>
    LET i == ev.sig
    IN /\ currentValue[i] = DefaultValue
       /\ lastStorageValue[i] = OrDefault(Null)
       /\ \A c \in Callers :
            ev.calls[c] = IF c \in Subs(i) THEN << DefaultValue >> ELSE << >>
       /\ storage = Null

\* C15 (remove, failed delete): when the backend delete of remove() fails,
\* currentValue is still reset to defaultValue and every subscriber is
\* notified with it; only the backend entry stays.
C15_RemoveFailureStillResets ==
  (ev.op = "removeDone" /\ ev.failed) =>
    LET i == ev.sig
    IN /\ currentValue[i] = DefaultValue
       /\ \A c \in Subs(i) : ev.calls[c] = << DefaultValue >>

\* C16 (remove is idempotent): a second remove() made right after a first
\* one has completed, with nothing else in between, leaves currentValue,
\* lastStorageValue and the backend entry as the first one left them.
C16_RemoveIdempotent ==
  chain.stage = 14 =>
    /\ currentValue[chain.sig] = chain.cur
    /\ lastStorageValue[chain.sig] = chain.last
    /\ storage = chain.y

\* C16 witness: the second of two consecutive successful removes has
\* completed and the key has no entry, as after the first.
C16_Witness ==
  /\ chain.stage = 14
  /\ ev.op = "removeDone"
  /\ ~ev.failed
  /\ chain.y = Null
  /\ storage = Null

\* C17 (what a firing debounce timer writes), as the code has it: the timer
\* writes the value given to the set call that armed it, the last value set
\* with debounce in its window; that is the store's currentValue at the
\* moment of firing when nothing else assigned currentValue in between.
C17_TimerWritesArmedValue ==
  ev.op = "timerFire" =>
    /\ LastOf(queue) = Call("persist", ev.sig, ev.val)
    /\ ev.val = LastOf(ev.win)
    /\ ~ev.touched => ev.val = currentValue[ev.sig]

\* C17 witness: a timer has fired after a memory-only or asynchronous write
\* replaced the value in memory; it wrote the value it was armed with.
C17_Witness ==
  /\ ev.op = "timerFire"
  /\ ev.touched
  /\ isInitialized[ev.sig]
  /\ lastLocal[ev.sig] = currentValue[ev.sig]
  /\ ev.val # currentValue[ev.sig]
  /\ LastOf(queue).val = ev.val

\* C17 as stated: whenever a debounce timer fires, the value it writes is the
\* store's currentValue at that moment.
C17_TimerWritesCurrentValue ==
  ev.op = "timerFire" => LastOf(queue).val = currentValue[ev.sig]

\* The pending debounce timers without their history fields.
TimerView(ts) == {[id |-> t.id, sig |-> t.sig, value |-> t.value] : t \in ts}

\* C18 (memory-only write): set(v, {persist: false}) assigns currentValue of
\* its store (and notifies) and nothing else: it issues no backend call, arms
\* and clears no timer, and leaves the backend entry, lastStorageValue, the
\* pending debounce timer, the subscribers and every other store as they were.
C18_MemoryOnlySet ==
  [][(ev'.op = "set" /\ ~ev'.ret) =>
       /\ currentValue' = [currentValue EXCEPT ![ev'.sig] = ev'.val]
       /\ queue' = queue
       /\ storage' = storage
       /\ lastStorageValue' = lastStorageValue
       /\ TimerView(timeouts') = TimerView(timeouts)
       /\ debounceTimeout' = debounceTimeout
       /\ intervals' = intervals
       /\ nextId' = nextId
       /\ isInitialized' = isInitialized
       /\ subscribers' = subscribers
       /\ hybridSignalRegistry' = hybridSignalRegistry]_vars

\* C18 witness: a memory-only set was made while a debounce timer with
\* another value was pending and no call in flight; its subscriber was told,
\* and neither the backend nor lastStorageValue holds the value set.
C18_Witness ==
  /\ ev.op = "set"
  /\ ~ev.ret
  /\ currentValue[ev.sig] = ev.val
  /\ \E t \in TimersOf(ev.sig) : t.value # ev.val
  /\ Cardinality(Subs(ev.sig)) = 1
  /\ \A c \in Subs(ev.sig) : ev.calls[c] = << ev.val >>
  /\ storage # ev.val
  /\ lastStorageValue[ev.sig] # ev.val
  /\ queue = << >>

\* C19 (write without debounce): after set(v, {persist: true, debounce:
\* false}), once every write in flight on the store up to and including the
\* one of this call has settled successfully, with no later caller operation
\* and no external write, the backend entry of the key is v, also when an
\* earlier set with debounce was still pending at the call.
C19_ImmediateSetWins == chain.stage = 22 => storage = chain.y

\* C20 (poll floor): every poll timer in existence belongs to a mounted hook
\* with subscribe = true and pollInterval > 0 and has the period
\* max(pollInterval, 500) ms, never less than 500 ms; a mounted hook with
\* subscribe = false or pollInterval <= 0 has no poll timer.
C20_PollFloor ==
  /\ \A t \in intervals :
       LET o == options[t.caller]
       IN /\ mounted[t.caller]
          /\ o.subscribe
          /\ o.pollInterval > 0
          /\ t.period >= 500
          /\ t.period >= o.pollInterval
          /\ t.period \in {o.pollInterval, 500}
  /\ \A c \in Callers :
       (mounted[c] /\ (~options[c].subscribe \/ options[c].pollInterval <= 0))
         => ~\E t \in intervals : t.caller = c

\* C20 witness: one hook asked for 100 ms and polls every 500 ms; another,
\* mounted with pollInterval 0 and subscribe = true, has no poll timer.
C20_Witness ==
  /\ \E t \in intervals :
       /\ options[t.caller].pollInterval = 100
       /\ t.period = 500
  /\ \E c \in Callers :
       /\ mounted[c]
       /\ options[c].subscribe
       /\ options[c].pollInterval = 0
       /\ ~\E t \in intervals : t.caller = c

\* C21 (failed poll read): the step that resumes a checkForExternalChanges
\* whose backend read failed returns false, changes neither currentValue nor
\* lastStorageValue nor any shown value, calls no subscriber, raises nothing
\* (the tick's catch has nothing to report) and leaves every poll timer
\* active, so that its later ticks run.
C21_FailedTickSkipped ==
  [][(ev'.op = "checkDone" /\ ev'.failed) =>
       /\ ~ev'.ret
       /\ ev'.calls = NoCalls
       /\ ev'.onError = 0
       /\ currentValue' = currentValue
       /\ lastStorageValue' = lastStorageValue
       /\ value' = value
       /\ intervals' = intervals]_vars

\* C21 witness: the read of a tick failed while the backend held a value the
\* store had not seen; the store and its poll timer are as before.
C21_Witness ==
  /\ ev.op = "checkDone"
  /\ ev.failed
  /\ isInitialized[ev.sig]
  /\ Subs(ev.sig) # {}
  /\ \E t \in intervals : t.sig = ev.sig
  /\ storage # Null
  /\ storage # lastStorageValue[ev.sig]

\* The poll timers of caller c.
PollTimersOf(c) == {t \in intervals : t.caller = c}

\* C22 (poll timer lifecycle): the active poll timers are exactly one per
\* attached caller that enabled polling (subscribe = true, pollInterval > 0),
\* however many callers share the store: each is the timer of its caller's
\* current attachment, on the store that attachment uses; a detached caller
\* and a caller attached without polling have none.
C22_OnePollTimerPerCaller ==
  /\ \A c \in Callers :
       Cardinality(PollTimersOf(c)) =
         IF mounted[c] /\ options[c].subscribe /\ options[c].pollInterval > 0
         THEN 1 ELSE 0
  /\ \A t \in intervals :
       /\ t.id = pollIntervalRef[t.caller]
       /\ t.sig = signalRef[t.caller]

\* C22 witness: two callers poll the same store, one of them after having
\* detached and attached again; two of the three timers created are active.
C22_Witness ==
  /\ nextId = 4
  /\ timeouts = {}
  /\ Cardinality(intervals) = 2
  /\ \A c \in Callers : mounted[c] /\ signalRef[c] = 1
  /\ \E t \in intervals : t.id = 3

\* C23 (unsubscribe): the step in which a caller's unsubscribe function runs
\* removes that caller's subscription and no other, in the order the others
\* were registered, and changes neither currentValue nor lastStorageValue
\* nor the pending debounce timer nor any call in flight; and every later
\* set or setAsync on an initialized store that a caller has left still
\* calls each remaining subscriber exactly once with the new value.
C23_UnsubscribeOnlyOwn ==
  [][/\ ev'.op = "detach" =>
          /\ subscribers' = [subscribers EXCEPT
                               ![ev'.sig] = SelectSeq(@, LAMBDA d : d # ev'.caller)]
          /\ currentValue' = currentValue
          /\ lastStorageValue' = lastStorageValue
          /\ isInitialized' = isInitialized
          /\ TimerView(timeouts') = TimerView(timeouts)
          /\ debounceTimeout' = debounceTimeout
          /\ queue' = queue
          /\ value' = value
     /\ ( /\ ev'.op \in {"set", "setAsync"}
          /\ isInitialized[ev'.sig]
          /\ \E d \in Callers : ~mounted[d] /\ signalRef[d] = ev'.sig )
        => \A c \in Callers :
             ev'.calls[c] = IF c \in Subs(ev'.sig) THEN << ev'.val >> ELSE << >>
    ]_vars

\* C23 witness: one of two subscribers of a store has unsubscribed; a later
\* set reached the one that stayed, and only it.
C23_Witness ==
  /\ ev.op = "set"
  /\ isInitialized[ev.sig]
  /\ \E d \in Callers :
       /\ ~mounted[d]
       /\ signalRef[d] = ev.sig
       /\ ev.calls[d] = << >>
       /\ value[d] # ev.val
  /\ Subs(ev.sig) = {ev.caller}
  /\ ev.calls[ev.caller] = << ev.val >>
  /\ value[ev.caller] = ev.val

\* C24 (detaching does not cancel persistence): a debounce timer of a store
\* that is (or is just being) evicted from the registry goes away only by
\* firing, and its firing issues the write of its pending value; and every
\* write the backend executes successfully puts its value in the entry.
C24_DetachKeepsPendingWrite ==
  [][/\ \A t \in timeouts :
          ( /\ hybridSignalRegistry' # t.sig
            /\ ~\E u \in timeouts' : u.id = t.id )
          => /\ ev'.op = "timerFire"
             /\ ev'.sig = t.sig
             /\ LastOf(queue') = Call("persist", t.sig, t.value)
     /\ ( /\ ev'.op = "backend"
          /\ ev'.ret
          /\ queue[FirstIssued].kind = "persist" )
        => storage' = queue[FirstIssued].val
    ]_vars

\* C24 witness: a store was evicted by its only subscriber's detach while
\* its debounce timer was pending; the timer has fired since and the backend
\* has executed the write of the pending value.
C24_Witness ==
  /\ ev.op = "backend"
  /\ ev.ret
  /\ nOps = 3
  /\ nInst = 1
  /\ hybridSignalRegistry = None
  /\ Subs(ev.sig) = {}
  /\ debounceTimeout[ev.sig] # Null
  /\ timeouts = {}
  /\ LastOf(queue).kind = "persist"
  /\ LastOf(queue).st = "ok"
  /\ ev.val = 0
  /\ storage = 0

\* C25 (registry and subscribers): between the steps of the hooks,
\* hybridSignalRegistry holds a store for the key if and only if that store
\* has a subscriber: the registered store has one, and a store with a
\* subscriber is the registered one (so a detach that leaves subscribers
\* leaves the entry, and a store without subscribers is not registered).
C25_RegisteredIffSubscribed ==
  /\ hybridSignalRegistry # None => Subs(hybridSignalRegistry) # {}
  /\ \A i \in Inst : Subs(i) # {} => hybridSignalRegistry = i
  /\ \A c \in Callers : mounted[c] <=> \E i \in Inst : c \in Subs(i)

\* C25 witness: one of two callers of a store has detached; the store keeps
\* the other as subscriber and is still the registered one.
C25_Witness ==
  /\ hybridSignalRegistry = 1
  /\ ~mounted[1]
  /\ mounted[2]
  /\ signalRef[1] = 1
  /\ Subs(1) = {2}
  /\ ev.op = "detach"

\* Structural equality of two objects: the same keys with the same values.
SameObject(a, b) ==
  {<< a[n].key, a[n].val >> : n \in DOMAIN a} =
  {<< b[n].key, b[n].val >> : n \in DOMAIN b}

\* C26 (structural equality): when the object read from the backend and
\* lastStorageValue have the same keys and values, in whatever key order,
\* checkForExternalChanges returns false and notifies nobody.
C26_StructuralEquality ==
  (cmpEv.op = "check" /\ SameObject(cmpEv.storageValue, cmpEv.lastStorageValue))
    => ~cmpEv.ret /\ ~cmpEv.notified

\* C27 (independent delivery): when a set notifies, every subscriber is
\* called with the new value even if one of the callbacks throws, and the
\* set still does the rest of its work (its write or its debounce timer).
C27_IndependentDelivery ==
  fanEv.op = "set" =>
    /\ \A cb \in Range(fanSubscribers) : cb \in Range(fanEv.called)
    /\ fanEv.persist => fanEv.persisted

\* C28 (IndexedDBHybridSignal is equivalent to HybridSignal): given the same
\* calls and the same backend answers, the two hold the same currentValue,
\* return the same results and call the same subscribers with the same
\* values in every step.
C28_SignalsEquivalent ==
  /\ eqHybrid.currentValue = eqIndexedDB.currentValue
  /\ eqEv.hybridCalls = eqEv.indexedDBCalls
  /\ eqEv.hybridRet = eqEv.indexedDBRet

\* C29: with fallbackToDefault = true and a defaultValue given, falsy ones
\* (0, false, "") included, a component shows defaultValue after a load that
\* found the key absent and after a removeValue() that succeeded.
C29_FallbackToDefault ==
  (/\ usEv.ok
   /\ \/ usEv.op = "loadValue" /\ usEv.absent
      \/ usEv.op = "removeValue"
   /\ usMounted[usEv.c] = "yes"
   /\ usOptions.fallbackToDefault
   /\ usOptions.defaultValue # JsUndefined)
  => usValue[usEv.c] = usOptions.defaultValue

\* Another component has completed a write and component d does not show
\* what the storage holds since.
Stale(d) ==
  /\ usWritten # NoWrite
  /\ usWritten # d
  /\ usMounted[d] = "yes"
  /\ usValue[d] # Loaded(usStorage, usOptions)

\* C30: once a component has completed setValue(v) or removeValue(), every
\* other mounted component on the same key comes to show the new value
\* without acting itself (unless its own reading of the storage fails).
C30_CrossComponentSync ==
  \A d \in Components : Stale(d) ~> (~Stale(d) \/ usError[d])

\* C31: with immediate = false, a value given to the hook's set without
\* per-call options is written to the backend: once the timer has fired and
\* the writes have completed, the entry holds it.
C31_ImmediateFalseStillWrites ==
  (/\ hsLast.op = "set"
   /\ hsLast.options = NoOptions
   /\ ~hsOptions.immediate
   /\ hsDebounce = Null
   /\ hsWrites = << >>)
  => hsStorage = hsLast.val

\* C32: a caller attached with subscribe = false or pollInterval = 0 is not
\* given the values the store adopts from the backend on poll ticks,
\* whoever else is attached to the key.
C32_NoDetectionWithoutSubscribe ==
  (ev.op = "checkDone" /\ ev.ret)
  => \A c \in Callers :
       (mounted[c] /\ ~PollEnabled(options[c].subscribe, options[c].pollInterval))
       => ev.calls[c] = << >>

\* C33: every HybridSignal constructed becomes initialized once its load has
\* resolved or rejected, and stays initialized from then on.
C33_EventuallyReadyForever ==
  \A i \in Inst : (nInst >= i) ~> [](isInitialized[i])

\* A store whose load was rejected is initialized.
C33_Witness ==
  /\ ev.op = "loadDone"
  /\ ~ev.ret
  /\ isInitialized[ev.sig]

\* C34: StorageSignal.set(v) leaves currentValue and the subscribers alone
\* until its write has completed; a write that succeeded installs v and
\* notifies every subscriber, one that failed changes nothing and notifies
\* nobody, and the promise set returned resolves either way.
C34_StorageFirstSet ==
  /\ sgEv.op \in {"set", "update"}
     => sgCurrentValue = sgEv.prior /\ sgEv.called = << >>
  /\ sgEv.op = "setDone"
     => /\ ~sgEv.rejected
        /\ sgEv.ok => sgCurrentValue = sgEv.val /\ sgEv.called = sgSubscribers
        /\ ~sgEv.ok => sgCurrentValue = sgEv.prior /\ sgEv.called = << >>

\* A write of a new value failed while a callback was subscribed.
C34_Witness ==
  /\ sgEv.op = "setDone"
  /\ ~sgEv.ok
  /\ sgEv.val # sgEv.prior
  /\ sgSubscribers # << >>

\* C40: after k update(f) calls issued on a loaded signal, all of them
\* settled with success, currentValue and the entry hold f applied k times
\* to the value the first of them started from.
C40_NoLostUpdates ==
  (sgBatch.k > 0 /\ sgBatch.clean /\ sgQueue = << >>)
  => /\ sgCurrentValue = sgBatch.start + sgBatch.k
     /\ sgStorage = sgBatch.start + sgBatch.k

\* C35: for every value given to the cookie driver's setItem, the empty
\* string and strings that are JSON texts included, a later getItem of the
\* key returns an equal value and hasItem returns true.
C35_CookieRoundTrip ==
  ckSet[ckEv.key] # NotSet
  => /\ ckEv.op = "getItem" => ckEv.ret = ckSet[ckEv.key]
     /\ ckEv.op = "hasItem" => ckEv.ret = JsBoolean(TRUE)

\* C36: when only persisting writes were used, every backend call has settled
\* successfully, no timer of the store is pending and the entry is the one
\* the check read, a completed checkForExternalChanges leaves currentValue
\* equal to the entry of the key (defaultValue if absent).  (A check issued
\* earlier but settling last reads the same entry and finds the same fields
\* as one issued after the others settled: the storage answers in order.)
C36_Quiescent ==
  /\ ev.op = "checkDone" /\ ~ev.failed
  /\ nFail = 0
  /\ queue = << >>
  /\ \A t \in timeouts : t.sig # ev.sig
  /\ ev.val = storage

C36_Convergence ==
  C36_Quiescent => currentValue[ev.sig] = OrDefault(storage)

\* The writes queued behind the check that is about to resume, issued by sets
\* on the same store.
C37_SetsBehind ==
  {n \in 2..Len(queue) : queue[n].kind = "persist" /\ queue[n].sig = Head(queue).sig}

\* A check is about to resume, a set was called on its store while it was
\* awaiting its read, and the value of the latest such set is in memory; no
\* backend call has failed.
C37_SetDuringCheck ==
  /\ Resumable("check")
  /\ nFail = 0
  /\ C37_SetsBehind # {}
  /\ \E n \in C37_SetsBehind :
       /\ \A m \in C37_SetsBehind : m <= n
       /\ currentValue[Head(queue).sig] = queue[n].val

\* C37: when set(v) was called while a checkForExternalChanges of the store
\* awaited its read, the completion of that check leaves v in memory.
C37_CheckKeepsLocalSet ==
  [][(C37_SetDuringCheck /\ ev'.op = "checkDone")
       => currentValue'[Head(queue).sig] = currentValue[Head(queue).sig]]_vars

\* C38: after remove() has completed successfully, with no set or update
\* issued afterwards, a debounce timer of the store that fires and whose
\* write takes effect leaves the key absent from the backend.
C38_RemovedStaysAbsent == chain.stage = 16 => storage = Null

\* The last step was a set with persist: false on a loaded
\* IndexedDBHybridSignal (no write is pending after it), and the store has
\* read or written its entry before: the HybridSignal given the same calls
\* holds that value in lastStorageValue.
C39_MemoryOnlySet ==
  /\ eqEv.op = "set"
  /\ ~eqLoading
  /\ eqWrites = << >>
  /\ eqHybrid.lastStorageValue # Null

\* C39: a checkForExternalChanges of IndexedDBHybridSignal replaces a value
\* set with persist: false only if the value it read differs from the one
\* the store last read or wrote.
C39_PollKeepsLocalWrite ==
  [][(C39_MemoryOnlySet /\ eqEv'.op = "check" /\ eqEv'.indexedDBRet)
       => Stringify(eqIndexedDB'.currentValue)
            # Stringify(eqHybrid.lastStorageValue)]_vars

====
